---- MODULE Spec2Model ----
(***************************************************************************)
(* A model of the data cleaning pipeline of ai-insight-engine              *)
(* (app/services/cleaner.py, class DataCleaner).                           *)
(*                                                                         *)
(* A DataFrame is a record of column names, column dtypes, index labels    *)
(* and rows of cells.  Numbers are fixed-point integers in units of        *)
(* 1/Scale, so that the means, quartiles and medians the pipeline computes *)
(* are exact.  The quality score is an exact rational.                     *)
(***************************************************************************)
EXTENDS Integers, Sequences, FiniteSets, TLC

VARIABLES
    file,                 \* the file at `filepath`, as the loader parses it
    pc,                   \* the stage DataCleaner.clean is in
    history,              \* the stages entered so far by the current invocation
    df_original,          \* self.df_original
    df_cleaned,           \* self.df_cleaned
    schema,               \* self.schema
    cleaning_log,         \* the list object self.cleaning_log refers to
    log_stage,            \* for each log entry, the stage that appended it
    quality_score,        \* self.quality_score
    quality_score_before, \* self.quality_score_before
    quality_score_after,  \* self.quality_score_after
    stats_before,         \* local stats_before of clean
    stats_after,          \* local stats_after of clean
    result,               \* what the current invocation of clean returned
    error,                \* the exception the current invocation raised
    returned,             \* the results returned by earlier invocations
    runs,                 \* invocations of clean on this instance so far
    unit,                 \* a direct call of one method on a fresh instance
    job,                  \* the job of one upload: its row, its directory, its task
    knn,                  \* how the KNN imputation of the current invocation ended
    proc,                 \* one job's row, the start_processing requests and its tasks
    uploads               \* one user's row and the upload requests being handled

vars == <<file, pc, history, df_original, df_cleaned, schema, cleaning_log,
          log_stage, quality_score, quality_score_before, quality_score_after,
          stats_before, stats_after, result, error, returned, runs, unit, job, knn, proc, uploads>>

----------------------------------------------------------------------------
(* Bounds of the model *)

MaxRows == 4

MaxRuns == 2

----------------------------------------------------------------------------
(* Arithmetic helpers *)

Min(a, b) == IF a <= b THEN a ELSE b

Max(a, b) == IF a >= b THEN a ELSE b

Abs(a) == IF a < 0 THEN -a ELSE a

RECURSIVE Gcd(_, _)
Gcd(a, b) == IF b = 0 THEN a ELSE Gcd(b, a % b)

RECURSIVE LcmUpTo(_)
LcmUpTo(n) == IF n <= 1 THEN 1 ELSE (LcmUpTo(n - 1) * n) \div Gcd(LcmUpTo(n - 1), n)

\* The fixed-point unit: a mean of up to MaxRows values, then a quartile
\* bound (eighths), then a median (halves) stay integral.
Scale == 16 * LcmUpTo(MaxRows)

\* Python floats held as exact rationals num/den, den > 0, in lowest terms.
Rat(n, d) ==
    LET g == Gcd(Abs(n), Abs(d))
        s == IF d < 0 THEN -1 ELSE 1
    IN  [num |-> (s * n) \div g, den |-> (s * d) \div g]

RatInt(n) == [num |-> n, den |-> 1]

\* float('nan'), the quotient 0 / 0 of numpy integers
RatNaN == [num |-> 0, den |-> 0]

RatAdd(a, b) == Rat(a.num * b.den + b.num * a.den, a.den * b.den)

RatSub(a, b) == Rat(a.num * b.den - b.num * a.den, a.den * b.den)

RatMul(a, b) == Rat(a.num * b.num, a.den * b.den)

RatLT(a, b) == a.num * b.den < b.num * a.den

RatLE(a, b) == a.num * b.den <= b.num * a.den

RECURSIVE SumSeq(_)
SumSeq(s) == IF s = <<>> THEN 0 ELSE Head(s) + SumSeq(Tail(s))

\* The subsequence of s at the positions i with keep[i].
RECURSIVE Mask(_, _)
Mask(s, keep) ==
    IF s = <<>> THEN <<>>
    ELSE (IF Head(keep) THEN <<Head(s)>> ELSE <<>>) \o Mask(Tail(s), Tail(keep))

\* The sequence of integers s in ascending order: the element at position k
\* is the one that k - 1 elements precede (equal elements by position).
Sorted(s) ==
    LET before(i) == {j \in 1 .. Len(s) : s[j] < s[i] \/ (s[j] = s[i] /\ j < i)}
    IN  [k \in 1 .. Len(s) |-> s[CHOOSE i \in 1 .. Len(s) : Cardinality(before(i)) = k - 1]]

\* Rounding of the rational n/d (d > 0) to the nearest integer, ties to even,
\* as Python's float formatting rounds an exactly representable tie.
RoundHalfEven(n, d) ==
    LET q == n \div d
        r == n % d
    IN  IF 2 * r < d THEN q
        ELSE IF 2 * r > d THEN q + 1
        ELSE IF q % 2 = 0 THEN q ELSE q + 1

RECURSIVE Pow10(_)
Pow10(k) == IF k = 0 THEN 1 ELSE 10 * Pow10(k - 1)

RECURSIVE Digits(_, _)
Digits(n, k) == IF k = 0 THEN "" ELSE Digits(n \div 10, k - 1) \o ToString(n % 10)

\* format(n/d, ".<k>f")
FormatFixed(n, d, k) ==
    LET t == RoundHalfEven(Abs(n) * Pow10(k), d)
        sign == IF n < 0 /\ t > 0 THEN "-" ELSE ""
    IN  sign \o ToString(t \div Pow10(k)) \o "." \o Digits(t % Pow10(k), k)

----------------------------------------------------------------------------
(* Cells, Series and DataFrames *)

NULL == [k |-> "null", n |-> 0, s |-> ""]

\* A number cell holding n/Scale
NumS(n) == [k |-> "num", n |-> n, s |-> ""]

\* A number cell holding the integer v
Num(v) == NumS(v * Scale)

Str(t) == [k |-> "str", n |-> 0, s |-> t]

Dt(d) == [k |-> "dt", n |-> d, s |-> ""]

isnull(c) == c.k = "null"

\* The DataFrame() with no rows and no columns; stands for None in a field.
NoneDF == [columns |-> <<>>, dtypes |-> <<>>, index |-> <<>>, rows |-> <<>>]

len(df) == Len(df.rows)

ColIdx(df) == 1 .. Len(df.columns)

RowIdx(df) == 1 .. Len(df.rows)

\* df[col] for the column at position j
Column(df, j) ==
    [dtype |-> df.dtypes[j], values |-> [i \in RowIdx(df) |-> df.rows[i][j]]]

dropna(values) == SelectSeq(values, LAMBDA c : ~isnull(c))

head(values, n) == SubSeq(values, 1, Min(n, Len(values)))

nunique(values) == Cardinality({values[i] : i \in {i \in 1 .. Len(values) : ~isnull(values[i])}})

null_count(values) == Cardinality({i \in 1 .. Len(values) : isnull(values[i])})

\* df.isnull().sum().sum()
missing_cells(df) == SumSeq([j \in ColIdx(df) |-> null_count(Column(df, j).values)])

\* df.duplicated(): a row is a duplicate when an earlier row has the same
\* cells (missing cells compare equal to missing cells); a frame without
\* columns has no duplicates.
duplicated(df) ==
    [i \in RowIdx(df) |-> Len(df.columns) > 0 /\ \E j \in 1 .. (i - 1) : df.rows[j] = df.rows[i]]

duplicate_rows(df) == Cardinality({i \in RowIdx(df) : duplicated(df)[i]})

\* df with the rows at the positions where keep is TRUE, index labels kept.
TakeRows(df, keep) ==
    [df EXCEPT !.rows = Mask(df.rows, keep), !.index = Mask(df.index, keep)]

\* df with column j replaced
SetColumn(df, j, values, dtype) ==
    [df EXCEPT !.rows = [i \in RowIdx(df) |-> [df.rows[i] EXCEPT ![j] = values[i]]],
               !.dtypes = [df.dtypes EXCEPT ![j] = dtype]]

----------------------------------------------------------------------------
(* _load_file *)

\* The dtype pandas gives a parsed column: int64 for whole numbers without a
\* missing value, float64 for other numbers (and for a column of missing
\* values only), datetime64[ns] for spreadsheet date cells, object otherwise.
ParsedDtype(values) ==
    LET present == dropna(values)
        all(kind) == \A i \in 1 .. Len(present) : present[i].k = kind
    IN  IF all("num")
        THEN IF Len(present) = Len(values) /\ \A i \in 1 .. Len(values) : values[i].n % Scale = 0
             THEN "int64" ELSE "float64"
        ELSE IF all("dt") THEN "datetime64[ns]"
        ELSE "object"

\* pd.read_csv / pd.read_excel on the file's table
ParseTable(f) ==
    [columns |-> f.columns,
     dtypes  |-> [j \in 1 .. Len(f.columns) |->
                    ParsedDtype([i \in 1 .. Len(f.rows) |-> f.rows[i][j]])],
     index   |-> [i \in 1 .. Len(f.rows) |-> i - 1],
     rows    |-> f.rows]

\* df.empty: no rows or no columns
empty(df) == Len(df.rows) = 0 \/ Len(df.columns) = 0

\* The loader without its checks
NoLoadCheck(f) == [ok |-> TRUE, df |-> ParseTable(f), error |-> ""]

\* Either the DataFrame, or the message of the exception raised.
_load_file(f) ==
    IF f.ext \notin {".csv", ".xlsx", ".xls"}
    THEN [ok |-> FALSE, df |-> NoneDF, error |-> "Unsupported file format: " \o f.ext]
    ELSE IF f.ext = ".csv" /\ Len(f.columns) = 0
    THEN [ok |-> FALSE, df |-> NoneDF, error |-> "No columns to parse from file"]
    ELSE LET df == ParseTable(f)
         IN  IF empty(df) THEN [ok |-> FALSE, df |-> NoneDF, error |-> "File is empty"]
             ELSE IF Len(df.columns) = 0
             THEN [ok |-> FALSE, df |-> NoneDF, error |-> "No columns found"]
             ELSE [ok |-> TRUE, df |-> df, error |-> ""]

----------------------------------------------------------------------------
(* _infer_column_type *)

\* Text that pd.to_datetime parses
DateStrings == {"2020-01-01", "2021-06-30", "20200101"}

\* Text that pd.to_numeric parses
NumStrings == {"1", "0", "7", "20200101"}

bool_vals == {"true", "false", "yes", "no", "y", "n", "1", "0", "t", "f"}

\* str.lower() on the text the model uses
lower(t) ==
    CASE t = "Yes" -> "yes"
      [] t = "No" -> "no"
      [] t = "TRUE" -> "true"
      [] t = "False" -> "false"
      [] OTHER -> t

\* str(v) of a cell's value
str(c) ==
    CASE c.k = "str" -> c.s
      [] c.k = "num" -> IF c.n % Scale = 0 THEN ToString(c.n \div Scale)
                        ELSE FormatFixed(c.n, Scale, 4)
      [] OTHER -> "dt" \o ToString(c.n)

parses_as_date(c) == c.k \in {"dt", "num"} \/ (c.k = "str" /\ c.s \in DateStrings)

parses_as_number(c) == c.k = "num" \/ (c.k = "str" /\ c.s \in NumStrings)

is_datetime64_any_dtype(dtype) == dtype = "datetime64[ns]"

is_numeric_dtype(dtype) == dtype \in {"int64", "float64", "bool"}

\* The test without the limit on the number of distinct values
OnlyBooleanWords(unique_vals) == unique_vals \subseteq bool_vals

\* unique_vals.issubset(bool_vals) and len(unique_vals) <= 2
LooksBoolean(unique_vals) == unique_vals \subseteq bool_vals /\ Cardinality(unique_vals) <= 2

\* The number of leading non-null values the parse attempts look at
HeadLimit == 100

\* The comparison with 0.95 made inclusive
IdUniquenessReached(series) == nunique(series.values) * 100 >= 95 * Len(series.values)

\* series.nunique() / len(series) > 0.95
IdUniquenessExceeded(series) == nunique(series.values) * 100 > 95 * Len(series.values)

\* The cardinality below which a column is categorical
CategoricalLimit == 50

_infer_column_type(series) ==
    LET non_null == dropna(series.values)
        sample == head(non_null, HeadLimit)
        unique_vals == {lower(str(non_null[i])) : i \in 1 .. Len(non_null)}
    IN  IF Len(non_null) = 0 THEN "unknown"
        ELSE IF is_datetime64_any_dtype(series.dtype) THEN "datetime"
        ELSE IF series.dtype = "object"
                /\ \A i \in 1 .. Len(sample) : parses_as_date(sample[i]) THEN "datetime"
        ELSE IF is_numeric_dtype(series.dtype) THEN "numeric"
        ELSE IF series.dtype = "object"
                /\ \A i \in 1 .. Len(sample) : parses_as_number(sample[i]) THEN "numeric"
        ELSE IF LooksBoolean(unique_vals) THEN "boolean"
        ELSE IF IdUniquenessExceeded(series) THEN "id"
        ELSE IF nunique(series.values) < CategoricalLimit THEN "categorical"
        ELSE "text"

----------------------------------------------------------------------------
(* _analyze_column and _infer_schema *)

NumbersOf(values) == [i \in 1 .. Len(dropna(values)) |-> dropna(values)[i].n]

\* The descriptor of one column.  min, max and mean are kept for numeric
\* columns (std, an irrational, and the top-10 categories are left out).
_analyze_column(series, col_name) ==
    LET inferred == _infer_column_type(series)
        nums == Sorted(NumbersOf(series.values))
        numeric == inferred = "numeric" /\ is_numeric_dtype(series.dtype)
    IN  [name |-> col_name,
         dtype |-> series.dtype,
         null_count |-> null_count(series.values),
         null_percentage |-> IF Len(series.values) = 0 THEN RatNaN
                             ELSE Rat(null_count(series.values) * 100, Len(series.values)),
         unique_count |-> nunique(series.values),
         inferred_type |-> inferred,
         sample_values |-> head(dropna(series.values), 3),
         min |-> IF numeric THEN nums[1] ELSE 0,
         max |-> IF numeric THEN nums[Len(nums)] ELSE 0,
         mean |-> IF numeric THEN Rat(SumSeq(nums), Len(nums)) ELSE RatInt(0),
         cardinality |-> IF inferred /= "categorical" THEN ""
                         ELSE IF nunique(series.values) > 50 THEN "high" ELSE "low"]

_infer_schema(df) ==
    [columns |-> [j \in ColIdx(df) |-> _analyze_column(Column(df, j), df.columns[j])],
     row_count |-> len(df),
     column_count |-> Len(df.columns)]

\* None in self.schema
NoneSchema == [columns |-> <<>>, row_count |-> 0, column_count |-> 0]

\* self.schema['columns'][col]['inferred_type']
InferredType(sch, col) ==
    LET j == CHOOSE j \in 1 .. Len(sch.columns) : sch.columns[j].name = col
    IN  sch.columns[j].inferred_type

----------------------------------------------------------------------------
(* _profile_data *)

\* The two weights exchanged
MutQualityFormula(completeness, uniqueness) ==
    RatAdd(RatMul(completeness, Rat(4, 10)), RatMul(uniqueness, Rat(6, 10)))

\* completeness * 0.6 + uniqueness * 0.4
QualityFormula(completeness, uniqueness) ==
    RatAdd(RatMul(completeness, Rat(6, 10)), RatMul(uniqueness, Rat(4, 10)))

_profile_data(df) ==
    LET row_count == len(df)
        column_count == Len(df.columns)
        total_cells == row_count * column_count
        missing == missing_cells(df)
        dups == duplicate_rows(df)
        missing_percentage == IF total_cells > 0 THEN Rat(missing * 100, total_cells) ELSE RatInt(0)
        duplicate_percentage == IF row_count > 0 THEN Rat(dups * 100, row_count) ELSE RatInt(0)
        completeness == RatSub(RatInt(100), missing_percentage)
        uniqueness == RatSub(RatInt(100), duplicate_percentage)
    IN  [row_count |-> row_count,
         column_count |-> column_count,
         total_cells |-> total_cells,
         missing_cells |-> missing,
         duplicate_rows |-> dups,
         missing_percentage |-> missing_percentage,
         duplicate_percentage |-> duplicate_percentage,
         quality_score |-> QualityFormula(completeness, uniqueness)]

\* The stats of no DataFrame: the locals of clean before they are assigned.
NoStats == _profile_data(NoneDF)

----------------------------------------------------------------------------
(* _log *)

\* The entry _log appends for (action, details, confidence)
LogEntry(action, details, confidence) ==
    IF confidence /= ""
    THEN IF details /= "" THEN action \o ": " \o details \o " [Confidence: " \o confidence \o "]"
         ELSE action \o " [Confidence: " \o confidence \o "]"
    ELSE IF details /= "" THEN action \o ": " \o details ELSE action

\* self.cleaning_log.insert(0, entry)
MutLog(log, entry) == <<entry>> \o log

\* self.cleaning_log.append(entry)
_log(log, entry) == Append(log, entry)

RECURSIVE LogAll(_, _)
LogAll(log, entries) ==
    IF entries = <<>> THEN log ELSE LogAll(_log(log, Head(entries)), Tail(entries))

\* f"{score:.1f}"
FormatScore(q) == FormatFixed(q.num, q.den, 1)

----------------------------------------------------------------------------
(* _handle_missing_values *)

\* The column positions of df, in order, that satisfy P
ColsWhere(df, P(_)) == SelectSeq([j \in ColIdx(df) |-> j], P)

SeqToSet(s) == {s[i] : i \in 1 .. Len(s)}

\* series.mean() of the present numbers (exact: Scale is a multiple of the count)
mean(values) == SumSeq(NumbersOf(values)) \div Len(dropna(values))

\* KNNImputer(n_neighbors).fit_transform(df[cols]) for the cell (i, j): a row
\* that has no observed value in cols gets the column mean; otherwise the
\* uniform average of column j over the nearest donors, a donor being a row
\* where j is observed and that shares an observed column with row i.
\* With no such donor the column mean is used.
KNNValue(df, cols, n_neighbors, i, j) ==
    LET present(r) == {c \in SeqToSet(cols) : ~isnull(df.rows[r][c])}
        common(r) == present(i) \cap present(r)
        donors == {r \in RowIdx(df) : ~isnull(df.rows[r][j]) /\ common(r) /= {}}
        \* nan_euclidean distance squared, times |common| / |cols|, in whole units
        sq(r) == SumSeq([k \in 1 .. Len(cols) |->
                    IF cols[k] \in common(r)
                    THEN ((df.rows[i][cols[k]].n - df.rows[r][cols[k]].n) \div Scale)
                         * ((df.rows[i][cols[k]].n - df.rows[r][cols[k]].n) \div Scale)
                    ELSE 0])
        nearer(a, b) == sq(a) * Cardinality(common(b)) <= sq(b) * Cardinality(common(a))
        chosen == IF Cardinality(donors) <= n_neighbors THEN donors
                  ELSE CHOOSE S \in SUBSET donors :
                         /\ Cardinality(S) = n_neighbors
                         /\ \A a \in S, b \in donors \ S : nearer(a, b)
        column == Column(df, j).values
    IN  IF present(i) = {} \/ donors = {} THEN mean(column)
        ELSE SumSeq([r \in RowIdx(df) |-> IF r \in chosen THEN df.rows[r][j].n ELSE 0])
             \div Cardinality(chosen)

\* Every cell of column j set to the number v
OverwriteNumber(df, j, v) == SetColumn(df, j, [i \in RowIdx(df) |-> NumS(v)], "float64")

\* df[col].fillna(v): the missing cells of column j set to the number v
FillNumber(df, j, v) ==
    SetColumn(df, j, [i \in RowIdx(df) |-> IF isnull(df.rows[i][j]) THEN NumS(v) ELSE df.rows[i][j]],
              "float64")

\* A fallback that fills nothing
FillNothing(df_imputed, df, cols) == df_imputed

RECURSIVE FillMean(_, _, _)
FillMean(df_imputed, df, cols) ==
    IF cols = <<>> THEN df_imputed
    ELSE FillMean(FillNumber(df_imputed, Head(cols), mean(Column(df, Head(cols)).values)),
                  df, Tail(cols))

RECURSIVE FillKNN(_, _, _, _)
FillKNN(df_imputed, df, cols, rest) ==
    IF rest = <<>> THEN df_imputed
    ELSE LET j == Head(rest)
             filled == [i \in RowIdx(df) |->
                          IF isnull(df.rows[i][j])
                          THEN NumS(KNNValue(df, cols, Min(5, len(df) - 1), i, j))
                          ELSE df.rows[i][j]]
         IN  FillKNN(SetColumn(df_imputed, j, filled, "float64"), df, cols, Tail(rest))

\* The order of the text values of the model (Python's string order)
TextOrder == <<"0", "1", "2020-01-01", "20200101", "2021-06-30", "7", "False", "No", "TRUE",
               "Yes", "f", "false", "n", "no", "t", "true", "x", "y", "yes", "z">>

TextRank(t) == IF \E k \in 1 .. Len(TextOrder) : TextOrder[k] = t
               THEN CHOOSE k \in 1 .. Len(TextOrder) : TextOrder[k] = t
               ELSE Len(TextOrder) + 1

\* cell a sorts before or with cell b
CellLE(a, b) == IF a.k = "str" /\ b.k = "str" THEN TextRank(a.s) <= TextRank(b.s) ELSE a.n <= b.n

\* series.mode()[0]: the smallest of the most frequent present values
mode0(values) ==
    LET present == dropna(values)
        count(v) == Cardinality({i \in 1 .. Len(present) : present[i] = v})
        top == {v \in SeqToSet(present) : \A w \in SeqToSet(present) : count(w) <= count(v)}
    IN  CHOOSE v \in top : \A w \in top : CellLE(v, w)

RECURSIVE FillMode(_, _, _)
FillMode(df_imputed, df, cols) ==
    IF cols = <<>> THEN df_imputed
    ELSE LET j == Head(cols)
             column == Column(df, j).values
             filled == IF Len(dropna(column)) > 0
                       THEN [i \in RowIdx(df) |-> IF isnull(df_imputed.rows[i][j]) THEN mode0(column)
                                                  ELSE df_imputed.rows[i][j]]
                       ELSE Column(df_imputed, j).values
         IN  FillMode(SetColumn(df_imputed, j, filled, df_imputed.dtypes[j]), df, Tail(cols))

\* The count of every missing cell of the frame
AllMissing(df, cols) == missing_cells(df)

\* sum(df[numeric_cols].isnull().sum())
values_filled(df, cols) ==
    SumSeq([k \in 1 .. Len(cols) |-> null_count(Column(df, cols[k]).values)])

\* knn_ok: whether KNNImputer.fit_transform returned (rather than raised).
\* Gives the imputed DataFrame, the log entries appended, in order, and how
\* the try block of the KNN imputation ended ("none" when it was not entered).
_handle_missing_values(df, sch, knn_ok) ==
    LET missing_before == missing_cells(df)
        has_missing(j) == null_count(Column(df, j).values) /= 0
        numeric_cols == ColsWhere(df, LAMBDA j : has_missing(j)
                                     /\ InferredType(sch, df.columns[j]) = "numeric")
        categorical_cols == ColsWhere(df, LAMBDA j : has_missing(j)
                                     /\ InferredType(sch, df.columns[j]) \in {"categorical", "text", "boolean"})
        values_missing == values_filled(df, numeric_cols)
        after_numeric == IF numeric_cols = <<>> THEN df
                         ELSE IF knn_ok THEN FillKNN(df, df, numeric_cols, numeric_cols)
                         ELSE FillMean(df, df, numeric_cols)
        numeric_entry == IF numeric_cols = <<>> THEN <<>>
                         ELSE IF knn_ok
                         THEN <<LogEntry("KNN imputation applied",
                                         ToString(Len(numeric_cols)) \o " numeric columns, "
                                         \o ToString(values_missing) \o " values filled", "medium")>>
                         ELSE <<LogEntry("Mean imputation applied",
                                         ToString(Len(numeric_cols)) \o " numeric columns (KNN failed)", "low")>>
        df_imputed == FillMode(after_numeric, df, categorical_cols)
        mode_entry == IF categorical_cols = <<>> THEN <<>>
                      ELSE <<LogEntry("Mode imputation applied",
                                      ToString(Len(categorical_cols)) \o " categorical columns", "high")>>
        imputed_columns == numeric_cols \o SelectSeq(categorical_cols,
                              LAMBDA j : Len(dropna(Column(df, j).values)) > 0)
        filled_count == missing_before - missing_cells(df_imputed)
        handled_entry == IF filled_count > 0
                         THEN <<LogEntry("Missing values handled",
                                         ToString(filled_count) \o " values imputed across "
                                         \o ToString(Len(imputed_columns)) \o " columns", "")>>
                         ELSE <<>>
    IN  IF missing_before = 0 THEN [df |-> df, entries |-> <<>>, knn |-> "none"]
        ELSE [df |-> df_imputed, entries |-> numeric_entry \o mode_entry \o handled_entry,
              knn |-> IF numeric_cols = <<>> THEN "none" ELSE IF knn_ok THEN "ok" ELSE "failed"]

----------------------------------------------------------------------------
(* _apply_business_rules *)

\* The rule terms that occur in col.lower(), for the column names of the model
TermsIn(col) ==
    CASE col = "Revenue" -> {"revenue"}
      [] col = "Quantity" -> {"quantity"}
      [] col = "Sales_Count" -> {"sales", "count"}
      [] col = "unit_price" -> {"price"}
      [] col = "Sales" -> {"sales"}
      [] OTHER -> {}

revenue_like(col) == TermsIn(col) \cap {"revenue", "sales", "price", "cost", "amount"} /= {}

quantity_like(col) == TermsIn(col) \cap {"quantity", "qty", "count"} /= {}

\* The values Rule 2 treats as error codes
Sentinels == {Num(999), Num(9999), Num(99999)}

\* series.median() of the present numbers; no present number gives NaN
median(values) ==
    LET s == Sorted(NumbersOf(values))
        n == Len(s)
    IN  IF n = 0 THEN NULL
        ELSE IF n % 2 = 1 THEN NumS(s[(n + 1) \div 2])
        ELSE NumS((s[n \div 2] + s[n \div 2 + 1]) \div 2)

\* The dtype of a numeric column after an assignment into it
AssignedDtype(dtype, values) ==
    IF \E i \in 1 .. Len(values) : isnull(values[i]) \/ values[i].n % Scale /= 0
    THEN "float64" ELSE dtype

\* Rule 1 left out
KeepNegatives(df, j) == [df |-> df, count |-> 0, entries |-> <<>>]

\* Rule 1 on column j: [df, count, entries]
NegativeRule(df, j) ==
    LET column == Column(df, j).values
        negative(c) == c.k = "num" /\ c.n < 0
        negative_count == Cardinality({i \in RowIdx(df) : negative(column[i])})
        fixed == [i \in RowIdx(df) |-> IF negative(column[i]) THEN Num(0) ELSE column[i]]
    IN  IF df.dtypes[j] \in {"float64", "int64"} /\ negative_count > 0
        THEN [df |-> SetColumn(df, j, fixed, AssignedDtype(df.dtypes[j], fixed)),
              count |-> negative_count,
              entries |-> <<LogEntry("Business rule applied to " \o df.columns[j],
                                     ToString(negative_count) \o " negative values set to 0", "high")>>]
        ELSE [df |-> df, count |-> 0, entries |-> <<>>]

\* Rule 2 on column j: [df, count, entries]
SuspiciousRule(df, j) ==
    LET column == Column(df, j).values
        suspicious(c) == c \in Sentinels
        suspicious_count == Cardinality({i \in RowIdx(df) : suspicious(column[i])})
        median_val == median(SelectSeq(column, LAMBDA c : ~suspicious(c)))
        fixed == [i \in RowIdx(df) |-> IF suspicious(column[i]) THEN median_val ELSE column[i]]
    IN  IF df.dtypes[j] \in {"float64", "int64"} /\ suspicious_count > 0
        THEN [df |-> SetColumn(df, j, fixed, AssignedDtype(df.dtypes[j], fixed)),
              count |-> suspicious_count,
              entries |-> <<LogEntry("Suspicious values in " \o df.columns[j],
                                     ToString(suspicious_count) \o " values (999/9999) replaced with median",
                                     "medium")>>]
        ELSE [df |-> df, count |-> 0, entries |-> <<>>]

\* What a pass has done so far: the frame, the corrections, the log entries
Accumulate(acc, r) ==
    [df |-> r.df, count |-> acc.count + r.count, entries |-> acc.entries \o r.entries]

\* for col in revenue_like_cols: ...
RECURSIVE NegativePass(_, _)
NegativePass(acc, cols) ==
    IF cols = <<>> THEN acc
    ELSE NegativePass(Accumulate(acc, NegativeRule(acc.df, Head(cols))), Tail(cols))

\* for col in quantity_like_cols: ...
RECURSIVE SuspiciousPass(_, _)
SuspiciousPass(acc, cols) ==
    IF cols = <<>> THEN acc
    ELSE SuspiciousPass(Accumulate(acc, SuspiciousRule(acc.df, Head(cols))), Tail(cols))

\* Rule 2 ahead of Rule 1
SuspiciousFirst(df) ==
    LET revenue_like_cols == ColsWhere(df, LAMBDA j : revenue_like(df.columns[j]))
        quantity_like_cols == ColsWhere(df, LAMBDA j : quantity_like(df.columns[j]))
        rule2 == SuspiciousPass([df |-> df, count |-> 0, entries |-> <<>>], quantity_like_cols)
    IN  NegativePass(rule2, revenue_like_cols)

\* The frame as the rules leave it, the number of corrections, the entries
_apply_business_rules(df) ==
    LET revenue_like_cols == ColsWhere(df, LAMBDA j : revenue_like(df.columns[j]))
        quantity_like_cols == ColsWhere(df, LAMBDA j : quantity_like(df.columns[j]))
        rule1 == NegativePass([df |-> df, count |-> 0, entries |-> <<>>], revenue_like_cols)
    IN  SuspiciousPass(rule1, quantity_like_cols)

----------------------------------------------------------------------------
(* _handle_outliers *)

\* The q-th quartile of the ascending sequence s, by linear interpolation
\* between the order statistics: series.quantile(q / 4)
quantile(s, q) ==
    IF ((Len(s) - 1) * q) % 4 = 0 THEN s[((Len(s) - 1) * q) \div 4 + 1]
    ELSE s[((Len(s) - 1) * q) \div 4 + 1]
         + ((((Len(s) - 1) * q) % 4)
            * (s[((Len(s) - 1) * q) \div 4 + 2] - s[((Len(s) - 1) * q) \div 4 + 1])) \div 4

\* lower_bound = Q1 - 1.5 * IQR
LowerBound(Q1, Q3) == Q1 - (3 * (Q3 - Q1)) \div 2

\* The lower bound's sign carried over to the upper bound
UpperBoundBelowQ3(Q1, Q3) == Q3 - (3 * (Q3 - Q1)) \div 2

\* upper_bound = Q3 + 1.5 * IQR
UpperBound(Q1, Q3) == Q3 + (3 * (Q3 - Q1)) \div 2

\* The rows the anomaly detector needs more than
IsolationMinRows == 10

\* The cell c capped from above only
CappedAbove(c, lower_bound, upper_bound) ==
    IF c.k = "num" /\ c.n > upper_bound THEN NumS(upper_bound) ELSE c

\* The cell c capped to [lower_bound, upper_bound]
Capped(c, lower_bound, upper_bound) ==
    IF c.k = "num" /\ c.n < lower_bound THEN NumS(lower_bound)
    ELSE IF c.k = "num" /\ c.n > upper_bound THEN NumS(upper_bound)
    ELSE c

\* Column j capped to the bounds: [df, count, entries]
CapColumn(df, j, lower_bound, upper_bound) ==
    LET column == Column(df, j).values
        capped == [i \in RowIdx(df) |-> Capped(column[i], lower_bound, upper_bound)]
        col_outliers == Cardinality({i \in RowIdx(df) : capped[i] /= column[i]})
    IN  IF col_outliers = 0 THEN [df |-> df, count |-> 0, entries |-> <<>>]
        ELSE [df |-> SetColumn(df, j, capped, AssignedDtype(df.dtypes[j], capped)),
              count |-> col_outliers,
              entries |-> <<LogEntry("IQR outliers capped in " \o df.columns[j],
                                     ToString(col_outliers) \o " values capped to ["
                                     \o FormatFixed(lower_bound, Scale, 2) \o ", "
                                     \o FormatFixed(upper_bound, Scale, 2) \o "]", "high")>>]

\* Q1 and Q3 of the values
Quartiles(values) ==
    LET s == Sorted(NumbersOf(values))
    IN  [Q1 |-> quantile(s, 1), Q3 |-> quantile(s, 3)]

\* Method 2 on column j: [df, count, entries].  A column that is not stored
\* as numbers makes quantile raise, which is caught: the column is skipped.
\* A column without a present value has NaN bounds, and nothing is outside.
IQRClamp(df, j) ==
    IF ~is_numeric_dtype(df.dtypes[j]) \/ Len(dropna(Column(df, j).values)) = 0
    THEN [df |-> df, count |-> 0, entries |-> <<>>]
    ELSE LET q == Quartiles(Column(df, j).values)
         IN  CapColumn(df, j, LowerBound(q.Q1, q.Q3), UpperBound(q.Q1, q.Q3))

\* for col in numeric_cols: ...
RECURSIVE IQRPass(_, _)
IQRPass(acc, cols) ==
    IF cols = <<>> THEN acc
    ELSE IQRPass(Accumulate(acc, IQRClamp(acc.df, Head(cols))), Tail(cols))

\* IsolationForest fitted from 10 complete rows on
ForestAtMinRows(df, sch) ==
    LET numeric_cols == ColsWhere(df, LAMBDA j : InferredType(sch, df.columns[j]) = "numeric")
        complete == {i \in RowIdx(df) : \A k \in 1 .. Len(numeric_cols) : ~isnull(df.rows[i][numeric_cols[k]])}
    IN  numeric_cols /= <<>> /\ Cardinality(complete) >= IsolationMinRows

\* Whether IsolationForest is fitted: more than 10 rows complete in numeric_cols
IsolationRuns(df, sch) ==
    LET numeric_cols == ColsWhere(df, LAMBDA j : InferredType(sch, df.columns[j]) = "numeric")
        complete == {i \in RowIdx(df) : \A k \in 1 .. Len(numeric_cols) : ~isnull(df.rows[i][numeric_cols[k]])}
    IN  numeric_cols /= <<>> /\ Cardinality(complete) > IsolationMinRows

\* outlier_count: the rows IsolationForest labels -1 (0 when it raises).
_handle_outliers(df, sch, outlier_count) ==
    LET numeric_cols == ColsWhere(df, LAMBDA j : InferredType(sch, df.columns[j]) = "numeric")
        forest_entry == IF IsolationRuns(df, sch) /\ outlier_count > 0
                        THEN <<LogEntry("IsolationForest outliers detected",
                                        ToString(outlier_count) \o " anomalous rows identified", "medium")>>
                        ELSE <<>>
        iqr == IQRPass([df |-> df, count |-> 0, entries |-> forest_entry], numeric_cols)
        rules == _apply_business_rules(iqr.df)
        outliers_handled == iqr.count + rules.count
        handled_entry == IF outliers_handled > 0
                         THEN <<LogEntry("Outliers handled",
                                         ToString(outliers_handled) \o " outliers detected and capped/corrected", "")>>
                         ELSE <<>>
    IN  IF Len(numeric_cols) = 0 THEN [df |-> df, entries |-> <<>>]
        ELSE [df |-> rules.df, entries |-> iqr.entries \o rules.entries \o handled_entry]

----------------------------------------------------------------------------
(* _remove_duplicates *)

\* df.drop_duplicates(keep='last')
MutDropLast(df) == TakeRows(df, [i \in RowIdx(df) |-> \A j \in (i + 1) .. len(df) : df.rows[j] /= df.rows[i]])

\* df.drop_duplicates(keep='first')
drop_duplicates(df) == TakeRows(df, [i \in RowIdx(df) |-> ~duplicated(df)[i]])

\* Every row that has a copy dropped, the first occurrence as well
DropAllCopies(df) ==
    LET duplicates_before == duplicate_rows(df)
        df_dedup == TakeRows(df, [i \in RowIdx(df) |-> \A j \in RowIdx(df) \ {i} : df.rows[j] /= df.rows[i]])
    IN  IF duplicates_before = 0 THEN [df |-> df, entries |-> <<>>]
        ELSE [df |-> df_dedup,
              entries |-> <<LogEntry("Duplicates removed",
                                     ToString(duplicates_before) \o " duplicate rows removed, "
                                     \o ToString(len(df_dedup)) \o " rows remaining", "high")>>]

_remove_duplicates(df) ==
    LET duplicates_before == duplicate_rows(df)
        df_dedup == drop_duplicates(df)
    IN  IF duplicates_before = 0 THEN [df |-> df, entries |-> <<>>]
        ELSE [df |-> df_dedup,
              entries |-> <<LogEntry("Duplicates removed",
                                     ToString(duplicates_before) \o " duplicate rows removed, "
                                     \o ToString(len(df_dedup)) \o " rows remaining", "high")>>]

----------------------------------------------------------------------------
(* The files the pipeline is run on *)

\* Column layouts: the header of a CSV file, the cells each column draws
\* from, and the rows left out of the files
Layouts ==
    { [columns |-> <<"Quantity">>,
       cells   |-> <<{NULL, Num(1), Num(2), Num(999)}>>,
       skip    |-> {}],
      [columns |-> <<"Revenue", "Label">>,
       cells   |-> <<{NULL, Num(-5), Num(10)}, {NULL, Str("x")}>>,
       skip    |-> {<<NULL, NULL>>, <<Num(-5), Str("x")>>}],
      [columns |-> <<"When", "Sales_Count">>,
       cells   |-> <<{NULL, Str("2020-01-01")}, {Num(-1), Num(999)}>>,
       skip    |-> {}],
      [columns |-> <<"Label">>,
       cells   |-> <<{NULL, Str("yes"), Str("no"), Str("x")}>>,
       skip    |-> {}] }

AllCells == UNION {UNION SeqToSet(L.cells) : L \in Layouts}

RowsOf(L) ==
    {r \in [1 .. Len(L.columns) -> AllCells] : \A j \in 1 .. Len(L.columns) : r[j] \in L.cells[j]}
    \ L.skip

TablesOf(L) == UNION {[1 .. n -> RowsOf(L)] : n \in 0 .. MaxRows}

SmallFiles == UNION {{[ext |-> ".csv", columns |-> L.columns, rows |-> t] : t \in TablesOf(L)} : L \in Layouts}

\* Eleven and more rows: enough for the anomaly detector to be fitted
BigFiles ==
    { [ext |-> ".csv", columns |-> <<"Quantity">>, rows |-> [i \in 1 .. 11 |-> <<Num(i)>>]],
      [ext |-> ".csv", columns |-> <<"Quantity">>, rows |-> [i \in 1 .. 12 |-> <<Num(IF i = 12 THEN 999 ELSE i)>>]],
      [ext |-> ".xlsx", columns |-> <<"Revenue", "Label">>,
       rows |-> [i \in 1 .. 12 |-> <<Num(10 * ((i + 1) \div 2)), Str(IF i % 2 = 0 THEN "x" ELSE "y")>>]] }

OtherFiles ==
    { [ext |-> ".json", columns |-> <<"Quantity">>, rows |-> <<<<Num(1)>>>>],
      [ext |-> ".csv", columns |-> <<>>, rows |-> <<>>],
      [ext |-> ".xlsx", columns |-> <<>>, rows |-> <<>>],
      [ext |-> ".xls", columns |-> <<"Quantity", "Label">>, rows |-> <<>>] }

Files == SmallFiles \cup BigFiles \cup OtherFiles

\* The files of the runs that re-use one DataCleaner
ReuseFiles ==
    { [ext |-> ".csv", columns |-> <<"Quantity">>, rows |-> <<<<Num(1)>>, <<Num(2)>>>>],
      [ext |-> ".csv", columns |-> <<"Quantity">>, rows |-> <<<<Num(999)>>, <<NULL>>, <<Num(999)>>>>],
      [ext |-> ".csv", columns |-> <<"Label">>, rows |-> <<<<Str("x")>>, <<Str("x")>>>>],
      [ext |-> ".csv", columns |-> <<"Quantity">>, rows |-> <<>>] }

----------------------------------------------------------------------------
(* DataCleaner.__init__ and the stages of DataCleaner.clean *)

Stages == <<"loading", "schema_inference", "profiling_before", "imputing",
            "outlier_handling", "deduplicating", "profiling_after", "done">>

Terminal == {"done", "failed"}

\* The reference the instance and its results hold to the one log list
LogRef == "self.cleaning_log"

NoResult == [returned |-> FALSE, cleaned_df |-> NoneDF, cleaning_log |-> LogRef,
             quality_score |-> RatInt(0), quality_score_before |-> RatInt(0),
             quality_score_after |-> RatInt(0), schema |-> NoneSchema, stats |-> NoStats]

NoUnit == [fn |-> "", done |-> TRUE]

\* No row of the jobs table
NoRecord == [exists |-> FALSE, status |-> "", progress |-> 0, rows_count |-> 0,
             quality_score |-> 0, error_message |-> ""]

\* No upload: no row, no job directory, no background task, no response
NoJob == [record |-> NoRecord,
          dir |-> [exists |-> FALSE, files |-> {}],
          task |-> "none", pending |-> FALSE, exc |-> "", raised |-> FALSE,
          response |-> [code |-> 0, status |-> ""],
          queries |-> <<>>,
          deleting |-> "no"]

\* No job whose processing is followed
NoProc == [status |-> "", tasks |-> <<>>, starts |-> 0, response |-> ""]

\* No user whose uploads are followed
NoUploads == [upload_count |-> 0, upload_limit |-> 0, before |-> 0, jobs |-> 0, requests |-> <<>>]

\* A new DataCleaner, and clean(filepath) called on it
InitWith(files) ==
    /\ file \in files
    /\ pc = "loading"
    /\ history = <<"loading">>
    /\ df_original = NoneDF
    /\ df_cleaned = NoneDF
    /\ schema = NoneSchema
    /\ cleaning_log = <<>>
    /\ log_stage = <<>>
    /\ quality_score = RatInt(0)
    /\ quality_score_before = RatInt(0)
    /\ quality_score_after = RatInt(0)
    /\ stats_before = NoStats
    /\ stats_after = NoStats
    /\ result = NoResult
    /\ error = ""
    /\ returned = <<>>
    /\ runs = 1
    /\ unit = NoUnit
    /\ job = NoJob
    /\ knn = "none"
    /\ proc = NoProc
    /\ uploads = NoUploads

Init == InitWith(Files)

\* The stage entered next, and the history of it
Enter(stage) ==
    /\ pc' = stage
    /\ history' = Append(history, stage)

\* self._log(...) for each entry, in the current stage
Log(entries) ==
    /\ cleaning_log' = LogAll(cleaning_log, entries)
    /\ log_stage' = log_stage \o [i \in 1 .. Len(entries) |-> pc]

\* except Exception: logger.error(...); raise
Fail(message) ==
    /\ Enter("failed")
    /\ error' = message

\* Stage 1: load and parse
Load ==
    /\ pc = "loading"
    /\ LET loaded == _load_file(file)
       IN  IF loaded.ok
           THEN /\ df_original' = loaded.df
                /\ Log(<<LogEntry("File loaded successfully",
                                  ToString(len(loaded.df)) \o " rows, "
                                  \o ToString(Len(loaded.df.columns)) \o " columns", "")>>)
                /\ Enter("schema_inference")
                /\ UNCHANGED error
           ELSE /\ Fail(loaded.error)
                /\ UNCHANGED <<df_original, cleaning_log, log_stage>>
    /\ UNCHANGED <<file, df_cleaned, schema, quality_score, quality_score_before,
                   quality_score_after, stats_before, stats_after, result, returned, runs, unit, job, knn, proc, uploads>>

\* Stage 2: infer schema
InferSchema ==
    /\ pc = "schema_inference"
    /\ schema' = _infer_schema(df_original)
    /\ Log(<<LogEntry("Schema inferred", ToString(Len(schema'.columns)) \o " columns analyzed", "")>>)
    /\ Enter("profiling_before")
    /\ UNCHANGED <<file, df_original, df_cleaned, quality_score, quality_score_before,
                   quality_score_after, stats_before, stats_after, result, error, returned, runs, unit, job, knn, proc, uploads>>

\* A pipeline that goes from profiling to deduplication when nothing is missing
SkipOutlierHandling(stats) ==
    IF stats.missing_cells > 0 THEN "imputing" ELSE "deduplicating"

\* The stage after profiling_before: imputing only with missing cells
AfterProfilingBefore(stats) ==
    IF stats.missing_cells > 0 THEN "imputing" ELSE "outlier_handling"

\* A working frame that starts empty
EmptyCopy(df) == NoneDF

\* df.copy()
copy(df) == df

\* Stage 3: profile the original, then copy it into the working frame
ProfileBefore ==
    /\ pc = "profiling_before"
    /\ stats_before' = _profile_data(df_original)
    /\ quality_score_before' = stats_before'.quality_score
    /\ Log(<<LogEntry("Initial data quality", FormatScore(quality_score_before') \o "/100", "")>>)
    /\ df_cleaned' = copy(df_original)
    /\ Enter(AfterProfilingBefore(stats_before'))
    /\ UNCHANGED <<file, df_original, schema, quality_score, quality_score_after,
                   stats_after, result, error, returned, runs, unit, job, knn, proc, uploads>>

\* Stage 4: handle missing values
Impute ==
    /\ pc = "imputing"
    /\ \E knn_ok \in BOOLEAN :
         LET r == _handle_missing_values(df_cleaned, schema, knn_ok)
         IN  /\ df_cleaned' = r.df
             /\ Log(r.entries)
             /\ knn' = r.knn
    /\ Enter("outlier_handling")
    /\ UNCHANGED <<file, df_original, schema, quality_score, quality_score_before,
                   quality_score_after, stats_before, stats_after, result, error, returned, runs, unit, job, proc, uploads>>

\* The counts IsolationForest(contamination=0.1) can report for n rows: the
\* rows scored strictly below the 10th percentile of the scores
ForestCounts(df, sch) ==
    IF IsolationRuns(df, sch) THEN 0 .. ((len(df) - 1 + 9) \div 10) ELSE {0}

\* A pipeline that always goes through deduplicating
AlwaysDeduplicate(df) == "deduplicating"

\* The stage after outlier_handling: deduplicating only with duplicates
AfterOutlierHandling(df) ==
    IF duplicate_rows(df) > 0 THEN "deduplicating" ELSE "profiling_after"

\* Stage 5 with the outliers handled in the original, not in a copy of it
OutliersInOriginal ==
    /\ pc = "outlier_handling"
    /\ \E outlier_count \in ForestCounts(df_cleaned, schema) :
         LET r == _handle_outliers(df_cleaned, schema, outlier_count)
         IN  /\ df_cleaned' = r.df
             /\ df_original' = r.df
             /\ Log(r.entries)
             /\ Enter(AfterOutlierHandling(r.df))
    /\ UNCHANGED <<file, schema, quality_score, quality_score_before,
                   quality_score_after, stats_before, stats_after, result, error, returned, runs, unit, job, knn, proc, uploads>>

\* Stage 5: detect and handle outliers
HandleOutliers ==
    /\ pc = "outlier_handling"
    /\ \E outlier_count \in ForestCounts(df_cleaned, schema) :
         LET r == _handle_outliers(df_cleaned, schema, outlier_count)
         IN  /\ df_cleaned' = r.df
             /\ Log(r.entries)
             /\ Enter(AfterOutlierHandling(r.df))
    /\ UNCHANGED <<file, df_original, schema, quality_score, quality_score_before,
                   quality_score_after, stats_before, stats_after, result, error, returned, runs, unit, job, knn, proc, uploads>>

\* Stage 6: remove duplicates
Deduplicate ==
    /\ pc = "deduplicating"
    /\ LET r == _remove_duplicates(df_cleaned)
       IN  /\ df_cleaned' = r.df
           /\ Log(r.entries)
    /\ Enter("profiling_after")
    /\ UNCHANGED <<file, df_original, schema, quality_score, quality_score_before,
                   quality_score_after, stats_before, stats_after, result, error, returned, runs, unit, job, knn, proc, uploads>>

\* The improvement logged whenever the quality has not dropped
ImprovementOrNone(improvement) ==
    IF improvement.num >= 0
    THEN <<LogEntry("Quality improvement",
                    "+" \o FormatFixed(improvement.num, improvement.den, 1) \o " points", "")>>
    ELSE <<>>

\* if improvement > 0: self._log("Quality improvement", ...)
ImprovementEntry(improvement) ==
    IF improvement.num > 0
    THEN <<LogEntry("Quality improvement",
                    "+" \o FormatFixed(improvement.num, improvement.den, 1) \o " points", "")>>
    ELSE <<>>

\* Stage 7: profile the cleaned frame, log the improvement, return the result
ProfileAfter ==
    /\ pc = "profiling_after"
    /\ stats_after' = _profile_data(df_cleaned)
    /\ quality_score_after' = stats_after'.quality_score
    /\ Log(<<LogEntry("Final data quality", FormatScore(quality_score_after') \o "/100", "")>>
             \o ImprovementEntry(RatSub(quality_score_after', quality_score_before)))
    /\ quality_score' = quality_score_after'
    /\ result' = [returned |-> TRUE, cleaned_df |-> df_cleaned, cleaning_log |-> LogRef,
                  quality_score |-> quality_score',
                  quality_score_before |-> quality_score_before,
                  quality_score_after |-> quality_score_after',
                  schema |-> schema, stats |-> stats_after']
    /\ Enter("done")
    /\ UNCHANGED <<file, df_original, df_cleaned, schema, quality_score_before,
                   stats_before, error, returned, runs, unit, job, knn, proc, uploads>>

\* An exception raised inside the current stage and not handled there
Raise ==
    /\ pc \notin Terminal
    /\ Fail("error in " \o pc)
    /\ UNCHANGED <<file, df_original, df_cleaned, schema, cleaning_log, log_stage,
                   quality_score, quality_score_before, quality_score_after,
                   stats_before, stats_after, result, returned, runs, unit, job, knn, proc, uploads>>

Next ==
    \/ Load
    \/ InferSchema
    \/ ProfileBefore
    \/ Impute
    \/ HandleOutliers
    \/ Deduplicate
    \/ ProfileAfter
    \/ Raise

Spec == Init /\ [][Next]_vars

----------------------------------------------------------------------------
(* A second clean() on the same DataCleaner *)

\* cleaner.clean(filepath) called again once the previous call has ended:
\* the caller keeps the dict the previous call returned; __init__ is not run
\* again, so the fields of the instance are as the previous call left them.
Invoke ==
    /\ pc \in Terminal
    /\ runs < MaxRuns
    /\ file' \in ReuseFiles
    /\ pc' = "loading"
    /\ history' = <<"loading">>
    /\ returned' = IF result.returned
                   THEN Append(returned, [result |-> result, log_at_return |-> cleaning_log])
                   ELSE returned
    /\ result' = NoResult
    /\ error' = ""
    /\ stats_before' = NoStats
    /\ stats_after' = NoStats
    /\ runs' = runs + 1
    /\ knn' = "none"
    /\ UNCHANGED <<df_original, df_cleaned, schema, cleaning_log, log_stage, quality_score,
                   quality_score_before, quality_score_after, unit, job, proc, uploads>>

InitReuse == InitWith(ReuseFiles)

NextReuse ==
    \/ Load
    \/ InferSchema
    \/ ProfileBefore
    \/ Impute
    \/ HandleOutliers
    \/ Deduplicate
    \/ ProfileAfter
    \/ Raise
    \/ Invoke

SpecReuse == InitReuse /\ [][NextReuse]_vars

\* The list a result's 'cleaning_log' refers to, as it is now
Deref(ref) == cleaning_log

----------------------------------------------------------------------------
(* One method called directly on a new DataCleaner *)

DataFrames ==
    {ParseTable(f) : f \in SmallFiles \cup BigFiles}
    \cup {ParseTable([ext |-> ".csv", columns |-> <<"A", "B">>,
                      rows |-> [i \in 1 .. 10 |-> <<Num(IF i > 8 THEN i - 8 ELSE i),
                                                    Str(IF i % 2 = 0 THEN "y" ELSE "x")>>]])}
    \cup {NoneDF, ParseTable([ext |-> ".csv", columns |-> <<>>, rows |-> <<<<>>, <<>>>>])}

\* test_missing_value_imputation: its column A alone, five rows, one missing
MissingValueFrame ==
    ParseTable([ext |-> ".csv", columns |-> <<"A">>,
                rows |-> <<<<Num(1)>>, <<Num(2)>>, <<NULL>>, <<Num(4)>>, <<Num(5)>>>>])

\* test_business_rules
BusinessRulesFrame ==
    ParseTable([ext |-> ".csv", columns |-> <<"Revenue", "Quantity">>,
                rows |-> <<<<Num(1000), Num(10)>>, <<Num(-500), Num(999)>>,
                           <<Num(2000), Num(12)>>, <<Num(3000), Num(15)>>>>])

\* test_outlier_detection
OutlierFrame ==
    ParseTable([ext |-> ".csv", columns |-> <<"Sales", "Quantity">>,
                rows |-> <<<<Num(100), Num(10)>>, <<Num(105), Num(12)>>, <<Num(98), Num(11)>>,
                           <<Num(102), Num(999)>>, <<Num(9999), Num(13)>>, <<Num(103), Num(11)>>,
                           <<Num(101), Num(12)>>, <<Num(104), Num(10)>>>>])

TestFrames == {MissingValueFrame, BusinessRulesFrame, OutlierFrame}

\* A Quantity column whose other values have an error code as their median
MedianFrame ==
    ParseTable([ext |-> ".csv", columns |-> <<"Quantity">>,
                rows |-> <<<<Num(998)>>, <<Num(1000)>>, <<Num(999)>>>>])

\* A datetime column and a numeric column, each with a missing value
DatedFrame ==
    ParseTable([ext |-> ".csv", columns |-> <<"When", "Quantity">>,
                rows |-> <<<<Str("2020-01-01"), Num(1)>>, <<NULL, NULL>>,
                           <<Str("2021-06-30"), Num(2)>>>>])

\* Eleven rows of a column that every pass of _handle_outliers corrects
ThreePassFrame ==
    ParseTable([ext |-> ".csv", columns |-> <<"Sales_Count">>,
                rows |-> <<<<Num(-1)>>, <<Num(500)>>, <<Num(999)>>, <<Num(1000)>>, <<Num(1200)>>,
                           <<Num(1500)>>, <<Num(999)>>, <<Num(800)>>, <<Num(700)>>, <<Num(600)>>,
                           <<Num(100000)>>>>])

CleaningFrames == DataFrames \cup TestFrames \cup {MedianFrame, DatedFrame, ThreePassFrame}

\* Text cells of the small Series
TextCells == {NULL, Str("2020-01-01"), Str("20200101"), Str("7"), Str("yes"), Str("No"), Str("x")}

\* The strings of a column of truth values
BooleanWords == {Str("true"), Str("false"), Str("yes"), Str("no")}

SeriesOver(cells) == UNION {[1 .. n -> cells] : n \in 0 .. MaxRows}

Word(i) == Str("w" \o ToString(i))

\* Long Series: n values, the i-th given by Value(i)
LongSeries ==
    { [i \in 1 .. 101 |-> IF i <= 100 THEN Str("2020-01-01") ELSE Str("x")],
      [i \in 1 .. 101 |-> IF i = 100 THEN Str("x") ELSE Str("2020-01-01")],
      [i \in 1 .. 102 |-> IF i = 1 THEN NULL ELSE IF i <= 101 THEN Str("2021-06-30") ELSE Str("x")],
      [i \in 1 .. 101 |-> IF i <= 100 THEN Str("7") ELSE Str("x")],
      [i \in 1 .. 101 |-> IF i = 100 THEN Str("x") ELSE Str("7")],
      [i \in 1 .. 60 |-> Word(IF i <= 50 THEN i ELSE 1)],
      [i \in 1 .. 60 |-> Word(IF i <= 49 THEN i ELSE 1)],
      [i \in 1 .. 21 |-> Word(IF i <= 20 THEN i ELSE 1)],
      [i \in 1 .. 20 |-> Word(IF i <= 19 THEN i ELSE 1)],
      [i \in 1 .. 100 |-> Word(i)],
      [i \in 1 .. 100 |-> IF i <= 96 THEN Word(i) ELSE NULL],
      [i \in 1 .. 100 |-> IF i <= 95 THEN Word(i) ELSE NULL],
      [i \in 1 .. 40 |-> IF i <= 39 THEN Str("yes") ELSE Str("No")] }

SeriesInputs ==
    {[dtype |-> "object", values |-> v] : v \in SeriesOver(TextCells) \cup LongSeries}
    \cup {[dtype |-> ParsedDtype(v), values |-> v] : v \in SeriesOver({NULL, Num(1), Num(2)})}
    \cup {[dtype |-> "datetime64[ns]", values |-> v] : v \in SeriesOver({NULL, Dt(1)})}
    \cup {[dtype |-> "object", values |-> v] : v \in {<<Num(1), Str("yes")>>, <<Num(1), Num(2), NULL>>,
                                                      <<Str("TRUE"), Str("False"), Str("true")>>}}
    \cup {[dtype |-> "bool", values |-> v] : v \in {<<Num(1), Num(0)>>}}
    \cup {[dtype |-> "object", values |-> v] : v \in SeriesOver(BooleanWords)}

UnitCalls ==
    {[fn |-> "_profile_data", arg |-> df, done |-> FALSE, ret |-> NoStats] : df \in DataFrames}
    \cup {[fn |-> "_remove_duplicates", arg |-> df, done |-> FALSE, ret |-> NoneDF] : df \in DataFrames}
    \cup {[fn |-> "_infer_column_type", arg |-> series, done |-> FALSE, ret |-> ""] : series \in SeriesInputs}
    \cup {[fn |-> "_handle_missing_values", arg |-> df, done |-> FALSE, ret |-> NoneDF] : df \in CleaningFrames}
    \cup {[fn |-> "_apply_business_rules", arg |-> df, done |-> FALSE,
           ret |-> [df |-> NoneDF, count |-> 0]] : df \in CleaningFrames}
    \cup {[fn |-> "_handle_outliers", arg |-> df, done |-> FALSE, ret |-> NoneDF] : df \in CleaningFrames}

\* cleaner = DataCleaner(), before the method is called
InitUnit ==
    /\ unit \in UnitCalls
    /\ file = [ext |-> "", columns |-> <<>>, rows |-> <<>>]
    /\ pc = "idle"
    /\ history = <<>>
    /\ df_original = NoneDF
    /\ df_cleaned = NoneDF
    /\ schema = NoneSchema
    /\ cleaning_log = <<>>
    /\ log_stage = <<>>
    /\ quality_score = RatInt(0)
    /\ quality_score_before = RatInt(0)
    /\ quality_score_after = RatInt(0)
    /\ stats_before = NoStats
    /\ stats_after = NoStats
    /\ result = NoResult
    /\ error = ""
    /\ returned = <<>>
    /\ runs = 0
    /\ job = NoJob
    /\ knn = "none"
    /\ proc = NoProc
    /\ uploads = NoUploads

UnitFrame == <<file, pc, history, df_original, df_cleaned, schema, quality_score,
               quality_score_before, quality_score_after, stats_before, stats_after,
               result, error, returned, runs, job, knn, proc, uploads>>

\* stats = cleaner._profile_data(df)
CallProfileData ==
    /\ unit.fn = "_profile_data" /\ ~unit.done
    /\ unit' = [unit EXCEPT !.done = TRUE, !.ret = _profile_data(unit.arg)]
    /\ UNCHANGED <<cleaning_log, log_stage>>
    /\ UNCHANGED UnitFrame

\* df_dedup = cleaner._remove_duplicates(df)
CallRemoveDuplicates ==
    /\ unit.fn = "_remove_duplicates" /\ ~unit.done
    /\ LET r == _remove_duplicates(unit.arg)
       IN  /\ unit' = [unit EXCEPT !.done = TRUE, !.ret = r.df]
           /\ Log(r.entries)
    /\ UNCHANGED UnitFrame

\* col_type = cleaner._infer_column_type(series)
CallInferColumnType ==
    /\ unit.fn = "_infer_column_type" /\ ~unit.done
    /\ unit' = [unit EXCEPT !.done = TRUE, !.ret = _infer_column_type(unit.arg)]
    /\ UNCHANGED <<cleaning_log, log_stage>>
    /\ UNCHANGED UnitFrame

\* The attributes a call of a cleaning method leaves alone
UnitFrameButSchema == <<file, pc, history, df_original, df_cleaned, quality_score,
                        quality_score_before, quality_score_after, stats_before, stats_after,
                        result, error, returned, runs, job, proc, uploads>>

\* cleaner.schema = cleaner._infer_schema(df)
\* df_imputed = cleaner._handle_missing_values(df)
CallHandleMissingValues ==
    /\ unit.fn = "_handle_missing_values" /\ ~unit.done
    /\ schema' = _infer_schema(unit.arg)
    /\ \E knn_ok \in BOOLEAN :
         LET r == _handle_missing_values(unit.arg, schema', knn_ok)
         IN  /\ unit' = [unit EXCEPT !.done = TRUE, !.ret = r.df]
             /\ Log(r.entries)
             /\ knn' = r.knn
    /\ UNCHANGED UnitFrameButSchema

\* cleaner.schema = cleaner._infer_schema(df)
\* corrections = cleaner._apply_business_rules(df), which changes df in place
CallApplyBusinessRules ==
    /\ unit.fn = "_apply_business_rules" /\ ~unit.done
    /\ schema' = _infer_schema(unit.arg)
    /\ LET r == _apply_business_rules(unit.arg)
       IN  /\ unit' = [unit EXCEPT !.done = TRUE, !.ret = [df |-> r.df, count |-> r.count]]
           /\ Log(r.entries)
    /\ UNCHANGED <<UnitFrameButSchema, knn>>

\* cleaner.schema = cleaner._infer_schema(df)
\* df_cleaned = cleaner._handle_outliers(df)
CallHandleOutliers ==
    /\ unit.fn = "_handle_outliers" /\ ~unit.done
    /\ schema' = _infer_schema(unit.arg)
    /\ \E outlier_count \in ForestCounts(unit.arg, schema') :
         LET r == _handle_outliers(unit.arg, schema', outlier_count)
         IN  /\ unit' = [unit EXCEPT !.done = TRUE, !.ret = r.df]
             /\ Log(r.entries)
    /\ UNCHANGED <<UnitFrameButSchema, knn>>

NextUnit ==
    \/ CallProfileData
    \/ CallRemoveDuplicates
    \/ CallInferColumnType
    \/ CallHandleMissingValues
    \/ CallApplyBusinessRules
    \/ CallHandleOutliers

SpecUnit == InitUnit /\ [][NextUnit]_vars

----------------------------------------------------------------------------
(* The job of an upload: upload_file, get_job_status, delete_job and the   *)
(* background task process_job_background                                  *)

MaxQueries == 2

\* settings.allowed_extensions_list, with the dot
AllowedExtensions == {".csv", ".xlsx", ".xls"}

\* The files a client uploads
JobFiles ==
    ReuseFiles \cup {[ext |-> ".json", columns |-> <<"Quantity">>, rows |-> <<<<Num(1)>>>>]}

\* The pipeline as process_job_background finds it before DataCleaner()
CleanerFrame == <<file, pc, history, df_original, df_cleaned, schema, cleaning_log,
                  log_stage, quality_score, quality_score_before, quality_score_after,
                  stats_before, stats_after, result, error, returned, runs, unit, knn>>

PipelineFrame == <<CleanerFrame, proc, uploads>>

InitJobs ==
    /\ file \in JobFiles
    /\ pc = "idle"
    /\ history = <<>>
    /\ df_original = NoneDF
    /\ df_cleaned = NoneDF
    /\ schema = NoneSchema
    /\ cleaning_log = <<>>
    /\ log_stage = <<>>
    /\ quality_score = RatInt(0)
    /\ quality_score_before = RatInt(0)
    /\ quality_score_after = RatInt(0)
    /\ stats_before = NoStats
    /\ stats_after = NoStats
    /\ result = NoResult
    /\ error = ""
    /\ returned = <<>>
    /\ runs = 0
    /\ unit = NoUnit
    /\ job = NoJob
    /\ knn = "none"
    /\ proc = NoProc
    /\ uploads = NoUploads

\* POST /api/v1/upload by a user below the upload limit: the file is
\* validated and saved, the row is added and committed, the task is added to
\* the background tasks, which run once the response is sent.
UploadFile ==
    /\ job.response.code = 0
    /\ IF file.ext \in AllowedExtensions
       THEN job' = [job EXCEPT !.dir = [exists |-> TRUE, files |-> {"upload"}],
                               !.record = [NoRecord EXCEPT !.exists = TRUE, !.status = "queued"],
                               !.task = "scheduled",
                               !.response = [code |-> 200, status |-> "processing"]]
       ELSE job' = [job EXCEPT !.response = [code |-> 400, status |-> ""]]
    /\ UNCHANGED PipelineFrame

\* GET /api/v1/jobs/{job_id} by the owner of the job
GetJobStatus ==
    /\ job.response.code = 200
    /\ Len(job.queries) < MaxQueries
    /\ job' = [job EXCEPT !.queries = Append(@,
                    IF job.record.exists THEN [code |-> 200, status |-> job.record.status]
                    ELSE [code |-> 404, status |-> ""])]
    /\ UNCHANGED PipelineFrame

\* DELETE /api/v1/jobs/{job_id} by the owner, up to cleanup_job_files:
\* shutil.rmtree(job_dir)
DeleteFiles ==
    /\ job.response.code = 200
    /\ job.record.exists
    /\ job.deleting = "no"
    /\ job' = [job EXCEPT !.dir = [exists |-> FALSE, files |-> {}], !.deleting = "files_removed"]
    /\ UNCHANGED PipelineFrame

\* delete_job from db.delete(job) to its return
DeleteRecord ==
    /\ job.deleting = "files_removed"
    /\ job' = [job EXCEPT !.record = NoRecord, !.deleting = "returned"]
    /\ UNCHANGED PipelineFrame

\* process_job_background up to cleaner.clean(filepath): the row is looked
\* up and set to processing, a DataCleaner is made and clean is entered.
TaskBegin ==
    /\ job.task = "scheduled"
    /\ IF job.record.exists
       THEN /\ job' = [job EXCEPT !.record.status = "processing", !.task = "cleaning"]
            /\ pc' = "loading"
            /\ history' = <<"loading">>
            /\ runs' = 1
       ELSE /\ job' = [job EXCEPT !.task = "ended"]
            /\ UNCHANGED <<pc, history, runs>>
    /\ UNCHANGED <<file, df_original, df_cleaned, schema, cleaning_log, log_stage, quality_score,
                   quality_score_before, quality_score_after, stats_before, stats_after,
                   result, error, returned, unit, knn, proc, uploads>>

\* The task is inside cleaner.clean(filepath)
Cleaning == job.task = "cleaning"

\* The stages of clean inside the task; the file can be read while the job
\* directory holds it
TaskLoad == Cleaning /\ job.dir.exists /\ Load

TaskInferSchema == Cleaning /\ InferSchema

TaskProfileBefore == Cleaning /\ ProfileBefore

TaskImpute == Cleaning /\ Impute

TaskHandleOutliers == Cleaning /\ HandleOutliers

TaskDeduplicate == Cleaning /\ Deduplicate

TaskProfileAfter == Cleaning /\ ProfileAfter

\* An exception inside a stage, the missing file among them
TaskRaise == Cleaning /\ Raise

\* clean has returned: the attributes of the row are set in the session
TaskCleanReturned ==
    /\ job.task = "cleaning" /\ pc = "done"
    /\ job' = [job EXCEPT !.task = "saving_data", !.pending = TRUE]
    /\ UNCHANGED PipelineFrame

\* clean has raised: except Exception as e
TaskCleanRaised ==
    /\ job.task = "cleaning" /\ pc = "failed"
    /\ job' = [job EXCEPT !.task = "except", !.exc = error, !.raised = TRUE]
    /\ UNCHANGED PipelineFrame

\* What writing the file name does in the job directory: the next position
\* of the task, or the exception of a directory that is gone
WriteFile(name, next, message) ==
    IF job.dir.exists
    THEN [job EXCEPT !.dir.files = @ \cup {name}, !.task = next]
    ELSE [job EXCEPT !.task = "except", !.exc = message]

\* result['cleaned_df'].to_csv(cleaned_path, index=False)
TaskSaveData ==
    /\ job.task = "saving_data"
    /\ job' = WriteFile("cleaned_data.csv", "saving_log",
                        "Cannot save file into a non-existent directory")
    /\ UNCHANGED PipelineFrame

\* with open(log_path, 'w') as f: f.write(...)
TaskSaveLog ==
    /\ job.task = "saving_log"
    /\ job' = WriteFile("cleaning_log.txt", "committing", "[Errno 2] No such file or directory")
    /\ UNCHANGED PipelineFrame

\* int(result['quality_score'])
int(q) == q.num \div q.den

\* The row with the attributes set after clean returned
CompleteRecord(record) ==
    [record EXCEPT !.status = "complete", !.progress = 100,
                   !.rows_count = len(result.cleaned_df),
                   !.quality_score = int(result.quality_score)]

\* db.commit() of the completed job; the UPDATE of a deleted row raises
TaskCommit ==
    /\ job.task = "committing"
    /\ IF job.record.exists
       THEN job' = [job EXCEPT !.record = CompleteRecord(@), !.task = "ended", !.pending = FALSE]
       ELSE job' = [job EXCEPT !.task = "except",
                               !.exc = "UPDATE statement on table 'jobs' expected to update 1 row(s)"]
    /\ UNCHANGED PipelineFrame

\* A failed row that keeps no message
FailedWithoutMessage(record, message) == [record EXCEPT !.status = "failed"]

\* job.status = "failed"; job.error_message = str(e)
FailedRecord(record, message) == [record EXCEPT !.status = "failed", !.error_message = message]

\* The except branch and finally: the row is looked up again (the session
\* first flushes the attributes it holds) and, if it is there, set to failed
TaskExcept ==
    /\ job.task = "except"
    /\ IF job.record.exists
       THEN job' = [job EXCEPT !.record = FailedRecord(IF job.pending THEN CompleteRecord(@) ELSE @,
                                                       job.exc),
                               !.task = "ended", !.pending = FALSE]
       ELSE job' = [job EXCEPT !.task = "ended", !.pending = FALSE]
    /\ UNCHANGED PipelineFrame

NextJobs ==
    \/ UploadFile
    \/ GetJobStatus
    \/ DeleteFiles
    \/ DeleteRecord
    \/ TaskBegin
    \/ TaskLoad
    \/ TaskInferSchema
    \/ TaskProfileBefore
    \/ TaskImpute
    \/ TaskHandleOutliers
    \/ TaskDeduplicate
    \/ TaskProfileAfter
    \/ TaskRaise
    \/ TaskCleanReturned
    \/ TaskCleanRaised
    \/ TaskSaveData
    \/ TaskSaveLog
    \/ TaskCommit
    \/ TaskExcept

SpecJobs == InitJobs /\ [][NextJobs]_vars

----------------------------------------------------------------------------
(* One job after its upload: start_processing requests and the background  *)
(* tasks process_job_background of the job, each in a thread of its own,   *)
(* with a database session of its own.  proc.status is the status of the   *)
(* row as committed.  No delete request: the row and the file are there.   *)

MaxStarts == 2

\* Everything but the job row, its requests and its tasks
ProcessFrame == <<CleanerFrame, job, uploads>>

\* upload_file has returned: the row is committed as queued and the task of
\* the upload is among the background tasks
InitProcess ==
    /\ file = [ext |-> "", columns |-> <<>>, rows |-> <<>>]
    /\ pc = "idle"
    /\ history = <<>>
    /\ df_original = NoneDF
    /\ df_cleaned = NoneDF
    /\ schema = NoneSchema
    /\ cleaning_log = <<>>
    /\ log_stage = <<>>
    /\ quality_score = RatInt(0)
    /\ quality_score_before = RatInt(0)
    /\ quality_score_after = RatInt(0)
    /\ stats_before = NoStats
    /\ stats_after = NoStats
    /\ result = NoResult
    /\ error = ""
    /\ returned = <<>>
    /\ runs = 0
    /\ unit = NoUnit
    /\ job = NoJob
    /\ knn = "none"
    /\ proc = [status |-> "queued", tasks |-> <<"scheduled">>, starts |-> 0, response |-> ""]
    /\ uploads = NoUploads

\* POST /api/v1/process/{job_id} by the owner of the job
StartProcessing ==
    /\ proc.starts < MaxStarts
    /\ IF proc.status \in {"processing", "complete"}
       THEN proc' = [proc EXCEPT !.starts = @ + 1, !.response = "already " \o proc.status]
       ELSE proc' = [proc EXCEPT !.starts = @ + 1, !.response = "processing",
                                 !.tasks = Append(@, "scheduled")]
    /\ UNCHANGED ProcessFrame

\* job.status = "processing"; db.commit()
ProcessBegin(t) ==
    /\ proc.tasks[t] = "scheduled"
    /\ proc' = [proc EXCEPT !.status = "processing", !.tasks[t] = "cleaning"]
    /\ UNCHANGED ProcessFrame

\* result = cleaner.clean(filepath) returns (the runs of SpecJobs that reach
\* done), and the fields of the row are set in the session of the task
ProcessCleanReturns(t) ==
    /\ proc.tasks[t] = "cleaning"
    /\ proc' = [proc EXCEPT !.tasks[t] = "saving"]
    /\ UNCHANGED ProcessFrame

\* cleaner.clean(filepath) raises (the runs of SpecJobs that fail)
ProcessCleanRaises(t) ==
    /\ proc.tasks[t] = "cleaning"
    /\ proc' = [proc EXCEPT !.tasks[t] = "clean_raised"]
    /\ UNCHANGED ProcessFrame

\* to_csv or the writing of the log raises
ProcessSaveRaises(t) ==
    /\ proc.tasks[t] = "saving"
    /\ proc' = [proc EXCEPT !.tasks[t] = "save_raised"]
    /\ UNCHANGED ProcessFrame

\* The files are written; db.commit() stores job.status = "complete"
ProcessCommit(t) ==
    /\ proc.tasks[t] = "saving"
    /\ proc' = [proc EXCEPT !.status = "complete", !.tasks[t] = "ended"]
    /\ UNCHANGED ProcessFrame

\* except Exception: job.status = "failed"; db.commit()
ProcessExcept(t) ==
    /\ proc.tasks[t] \in {"clean_raised", "save_raised"}
    /\ proc' = [proc EXCEPT !.status = "failed", !.tasks[t] = "ended"]
    /\ UNCHANGED ProcessFrame

Begins == \E t \in DOMAIN proc.tasks : ProcessBegin(t)

CleanReturns == \E t \in DOMAIN proc.tasks : ProcessCleanReturns(t)

CleanRaises == \E t \in DOMAIN proc.tasks : ProcessCleanRaises(t)

SaveRaises == \E t \in DOMAIN proc.tasks : ProcessSaveRaises(t)

Commits == \E t \in DOMAIN proc.tasks : ProcessCommit(t)

Excepts == \E t \in DOMAIN proc.tasks : ProcessExcept(t)

NextProcess ==
    \/ StartProcessing
    \/ Begins
    \/ CleanReturns
    \/ CleanRaises
    \/ SaveRaises
    \/ Commits
    \/ Excepts

SpecProcess == InitProcess /\ [][NextProcess]_vars

----------------------------------------------------------------------------
(* One user and upload requests handled concurrently: upload_file is a     *)
(* coroutine that gives way to the other requests at                       *)
(* `await save_upload_file`.  Each request has a session of its own and    *)
(* the User object loaded in it.                                           *)

MaxRequests == 3

\* User.upload_limit, default
UploadLimit == 10

UploadsFrame == <<CleanerFrame, job, proc>>

\* The extensions of the files sent
SentExtensions == AllowedExtensions \cup {".json"}

\* A user who has uploaded before, and uploads sent but not yet handled
InitUploads ==
    /\ file = [ext |-> "", columns |-> <<>>, rows |-> <<>>]
    /\ pc = "idle"
    /\ history = <<>>
    /\ df_original = NoneDF
    /\ df_cleaned = NoneDF
    /\ schema = NoneSchema
    /\ cleaning_log = <<>>
    /\ log_stage = <<>>
    /\ quality_score = RatInt(0)
    /\ quality_score_before = RatInt(0)
    /\ quality_score_after = RatInt(0)
    /\ stats_before = NoStats
    /\ stats_after = NoStats
    /\ result = NoResult
    /\ error = ""
    /\ returned = <<>>
    /\ runs = 0
    /\ unit = NoUnit
    /\ job = NoJob
    /\ knn = "none"
    /\ proc = NoProc
    /\ \E count \in (UploadLimit - 2) .. UploadLimit :
          uploads = [upload_count |-> count, upload_limit |-> UploadLimit, before |-> count,
                     jobs |-> 0,
                     requests |-> [r \in 1 .. MaxRequests |-> [at |-> "sent", seen |-> 0, code |-> 0]]]

\* current_user.upload_count += 1, on the User object the request loaded
CountSeen(r) == uploads.requests[r].seen + 1

\* upload_file up to `await save_upload_file`: the user is loaded, the limit
\* and the file are checked
UploadCheck(r) ==
    /\ uploads.requests[r].at = "sent"
    /\ \E ext \in SentExtensions :
         LET seen == uploads.upload_count
         IN  uploads' = [uploads EXCEPT !.requests[r] =
                 IF seen >= uploads.upload_limit THEN [at |-> "done", seen |-> seen, code |-> 429]
                 ELSE IF ext \notin AllowedExtensions THEN [at |-> "done", seen |-> seen, code |-> 400]
                 ELSE [at |-> "saving", seen |-> seen, code |-> 0]]
    /\ UNCHANGED UploadsFrame

\* save_upload_file raises
UploadSaveFails(r) ==
    /\ uploads.requests[r].at = "saving"
    /\ uploads' = [uploads EXCEPT !.requests[r].at = "done", !.requests[r].code = 500]
    /\ UNCHANGED UploadsFrame

\* upload_file after the file is saved: the job is added, the count is
\* incremented, both are committed and the response is sent
UploadCommit(r) ==
    /\ uploads.requests[r].at = "saving"
    /\ uploads' = [uploads EXCEPT !.upload_count = CountSeen(r),
                                  !.jobs = @ + 1,
                                  !.requests[r].at = "done", !.requests[r].code = 200]
    /\ UNCHANGED UploadsFrame

Checks == \E r \in DOMAIN uploads.requests : UploadCheck(r)

SaveFails == \E r \in DOMAIN uploads.requests : UploadSaveFails(r)

UploadCommits == \E r \in DOMAIN uploads.requests : UploadCommit(r)

NextUploads ==
    \/ Checks
    \/ SaveFails
    \/ UploadCommits

SpecUploads == InitUploads /\ [][NextUploads]_vars

----------------------------------------------------------------------------
(* Properties of the pipeline *)

Pos(stage) == CHOOSE k \in 1 .. Len(Stages) : Stages[k] = stage

IsPrefix(a, b) == Len(a) <= Len(b) /\ SubSeq(b, 1, Len(a)) = a

Last(s) == s[Len(s)]

\* The stages of a history, without the failure that may end it
Entered(h) == IF Last(h) = "failed" THEN SubSeq(h, 1, Len(h) - 1) ELSE h

\* One stage follows another directly, or over a skipped imputing or deduplicating
Follows(a, b) ==
    \/ Pos(b) = Pos(a) + 1
    \/ a = "profiling_before" /\ b = "outlier_handling"
    \/ a = "outlier_handling" /\ b = "profiling_after"

\* C1: the stages of a run are entered in the order loading, schema_inference,
\* profiling_before, imputing, outlier_handling, deduplicating,
\* profiling_after, done, each at most once, only imputing and deduplicating
\* skipped; a run that has not ended can still fail, and a run that has
\* ended in done or failed takes no further step.
C1_StageOrder ==
    LET h == Entered(history)
    IN  /\ history /= <<>> /\ Last(history) = pc
        /\ \A i \in 1 .. Len(h) : h[i] /= "failed"
        /\ h /= <<>> /\ h[1] = "loading"
        /\ \A i \in 1 .. (Len(h) - 1) : Follows(h[i], h[i + 1])
        /\ pc \in Terminal => ~ENABLED Next
        /\ pc \notin Terminal => ENABLED Raise

C1_Witness ==
    /\ pc = "done"
    /\ history = Stages

\* C2: after a failure no stage runs and nothing is returned, and a file
\* with zero rows fails in the loading stage without a result.
C2_FailureAborts ==
    /\ pc = "failed" => /\ ~result.returned
                        /\ ~ENABLED Next
                        /\ \A i, j \in 1 .. Len(history) : history[i] = history[j] => i = j
    /\ Len(file.rows) = 0 => /\ pc \in {"loading", "failed"}
                             /\ ~result.returned
                             /\ df_original = NoneDF
                             /\ pc = "failed" => history = <<"loading", "failed">>

C2_Witness ==
    /\ pc = "failed"
    /\ file.ext = ".xls" /\ Len(file.columns) = 2 /\ Len(file.rows) = 0
    /\ error = "File is empty"
    /\ cleaning_log = <<>>

\* C3: when clean completes, quality_score_after is at least
\* quality_score_before, and the two are equal when neither the number of
\* missing cells nor the number of duplicate rows changed.
C3_QualityNeverDrops ==
    pc = "done" =>
        /\ RatLE(quality_score_before, quality_score_after)
        /\ (/\ stats_before.missing_cells = stats_after.missing_cells
            /\ stats_before.duplicate_rows = stats_after.duplicate_rows)
           => quality_score_before = quality_score_after

\* The columns the imputation is meant to complete
Eligible(col) == InferredType(schema, col) \in {"numeric", "categorical", "boolean"}

\* C4: when clean completes, the cleaned dataset has no missing cell in a
\* column inferred numeric, categorical or boolean, and no duplicate row.
C4_CleanedIsComplete ==
    pc = "done" =>
        /\ \A j \in ColIdx(df_cleaned) :
              Eligible(df_cleaned.columns[j]) => null_count(Column(df_cleaned, j).values) = 0
        /\ duplicate_rows(df_cleaned) = 0

\* Every present value v of the column satisfies Q1 - 1.5 IQR <= v <= Q3 + 1.5 IQR
InsideIQR(values) ==
    LET q == Quartiles(values)
    IN  \A i \in 1 .. Len(values) :
            values[i].k = "num" => /\ 2 * values[i].n >= 2 * q.Q1 - 3 * (q.Q3 - q.Q1)
                                   /\ 2 * values[i].n <= 2 * q.Q3 + 3 * (q.Q3 - q.Q1)

\* Nothing for the pipeline to detect or correct in df
AlreadyClean(df) ==
    /\ ~empty(df)
    /\ missing_cells(df) = 0
    /\ duplicate_rows(df) = 0
    /\ \A j \in ColIdx(df) :
          df.dtypes[j] \in {"int64", "float64"} =>
              /\ InsideIQR(Column(df, j).values)
              /\ revenue_like(df.columns[j]) => \A i \in RowIdx(df) : df.rows[i][j].n >= 0
              /\ quantity_like(df.columns[j]) =>
                    \A i \in RowIdx(df) : df.rows[i][j] \notin {Num(999), Num(9999), Num(99999)}

\* The status lines of a run on a clean dataset
StatusLines(df) ==
    << "File loaded successfully: " \o ToString(len(df)) \o " rows, "
           \o ToString(Len(df.columns)) \o " columns",
       "Schema inferred: " \o ToString(Len(df.columns)) \o " columns analyzed",
       "Initial data quality: 100.0/100",
       "Final data quality: 100.0/100" >>

DetectionLine(k) ==
    "IsolationForest outliers detected: " \o ToString(k)
        \o " anomalous rows identified [Confidence: medium]"

\* C5 as stated: a run on an already-clean dataset logs the status lines
\* only and returns the dataset unchanged.
C5_OnlyStatusLines ==
    pc = "done" /\ AlreadyClean(df_original) =>
        /\ cleaning_log = StatusLines(df_original)
        /\ df_cleaned = df_original

\* C5: a run on an already-clean dataset returns the dataset unchanged and
\* logs no correction; besides the status lines it logs at most the single
\* detection line of the anomaly detector, and that only when the dataset
\* has more than 10 rows.
C5_CleanStaysClean ==
    pc = "done" /\ AlreadyClean(df_original) =>
        /\ df_cleaned = df_original
        /\ \/ cleaning_log = StatusLines(df_original)
           \/ /\ len(df_original) > 10
              /\ \E k \in 1 .. len(df_original) :
                    cleaning_log = SubSeq(StatusLines(df_original), 1, 3)
                                      \o <<DetectionLine(k)>>
                                      \o SubSeq(StatusLines(df_original), 4, 4)

C5_Witness ==
    /\ pc = "done"
    /\ AlreadyClean(df_original)
    /\ len(df_original) > 10
    /\ Len(cleaning_log) = 5
    /\ cleaning_log[4] = DetectionLine(1)

\* The cells of df that are missing
MissingCount(df) ==
    Cardinality({c \in RowIdx(df) \X ColIdx(df) : df.rows[c[1]][c[2]] = NULL})

\* C6: _profile_data returns the counts of the dataset and
\* quality_score = 0.6 * (100 - missing_percentage) + 0.4 * (100 - duplicate_percentage),
\* the percentages being 100 * missing / cells and 100 * duplicates / rows
\* (0 without cells or rows), and 0 <= quality_score <= 100.
C6_QualityScore ==
    unit.fn = "_profile_data" /\ unit.done =>
        LET r == unit.ret
            n == r.row_count
            T == r.total_cells
            m == r.missing_cells
            d == r.duplicate_rows
            mp == r.missing_percentage
            dp == r.duplicate_percentage
            q == r.quality_score
        IN  /\ n = Len(unit.arg.rows)
            /\ T = n * Len(unit.arg.columns)
            /\ m = MissingCount(unit.arg)
            /\ d >= 0 /\ d <= Max(n - 1, 0)
            /\ mp.den > 0 /\ dp.den > 0 /\ q.den > 0
            /\ IF T > 0 THEN mp.num * T = mp.den * 100 * m ELSE mp.num = 0
            /\ IF n > 0 THEN dp.num * n = dp.den * 100 * d ELSE dp.num = 0
            /\ 10 * q.num * mp.den * dp.den
                  = q.den * (6 * (100 * mp.den - mp.num) * dp.den
                             + 4 * (100 * dp.den - dp.num) * mp.den)
            /\ 0 <= q.num /\ q.num <= 100 * q.den

C6_Witness ==
    /\ unit.fn = "_profile_data" /\ unit.done
    /\ unit.ret.missing_cells = 1
    /\ unit.ret.duplicate_rows = 2
    /\ unit.ret.total_cells = 8
    /\ unit.ret.quality_score = [num |-> 145, den |-> 2]

\* The positions of the rows that no earlier row equals
FirstOccurrences(df) == {i \in RowIdx(df) : \A j \in 1 .. (i - 1) : df.rows[j] /= df.rows[i]}

\* The k-th smallest member of the set S of integers
Nth(S, k) == CHOOSE i \in S : Cardinality({j \in S : j <= i}) = k

\* C7: on a dataset with d >= 1 duplicate rows _remove_duplicates returns
\* the first occurrences of the rows in their original order, row_count - d
\* rows without a duplicate among them, and logs the one entry
\* "d duplicate rows removed, (row_count - d) rows remaining".
C7_KeepsFirstOccurrences ==
    LET df == unit.arg
        first == FirstOccurrences(df)
        d == len(df) - Cardinality(first)
    IN  (unit.fn = "_remove_duplicates" /\ unit.done /\ Len(df.columns) > 0 /\ d >= 1) =>
            /\ unit.ret.rows = [k \in 1 .. Cardinality(first) |-> df.rows[Nth(first, k)]]
            /\ unit.ret.index = [k \in 1 .. Cardinality(first) |-> df.index[Nth(first, k)]]
            /\ unit.ret.columns = df.columns
            /\ Len(unit.ret.rows) = len(df) - d
            /\ \A i, j \in 1 .. Len(unit.ret.rows) : unit.ret.rows[i] = unit.ret.rows[j] => i = j
            /\ cleaning_log = << "Duplicates removed: " \o ToString(d) \o " duplicate rows removed, "
                                    \o ToString(len(df) - d) \o " rows remaining [Confidence: high]" >>

C7_Witness ==
    /\ unit.fn = "_remove_duplicates" /\ unit.done
    /\ Len(unit.arg.rows) = 10
    /\ Len(unit.ret.rows) = 8
    /\ unit.ret.index = <<0, 1, 2, 3, 4, 5, 6, 7>>
    /\ cleaning_log = <<"Duplicates removed: 2 duplicate rows removed, 8 rows remaining [Confidence: high]">>

\* C8: every step leaves the log as it was and appends to it at most: the
\* log before the step is a prefix of the log after it, and the entries a
\* step appends are those of the stage that executes, after all the entries
\* of the stages that executed before it.
C8_LogAppendOnly ==
    [][/\ IsPrefix(cleaning_log, cleaning_log')
       /\ Len(log_stage') = Len(cleaning_log')
       /\ IsPrefix(log_stage, log_stage')
       /\ \A i \in (Len(log_stage) + 1) .. Len(log_stage') : log_stage'[i] = pc
       /\ \A i, j \in 1 .. Len(log_stage') : i < j => Pos(log_stage'[i]) <= Pos(log_stage'[j])]_vars

C8_Witness ==
    /\ pc = "done"
    /\ history = Stages
    /\ Len(cleaning_log) >= 9

\* C9: a result, once returned, is not changed by a later invocation, and
\* the log of a result holds the entries of its own invocation only, the
\* first of them being that invocation's "File loaded successfully" line.
C9_InvocationsIsolated ==
    /\ \A k \in 1 .. Len(returned) :
          Deref(returned[k].result.cleaning_log) = returned[k].log_at_return
    /\ result.returned =>
          Deref(result.cleaning_log)[1]
              = "File loaded successfully: " \o ToString(len(df_original)) \o " rows, "
                   \o ToString(Len(df_original.columns)) \o " columns"

\* The non-null values of the series
Present(series) == SelectSeq(series.values, LAMBDA c : c /= NULL)

\* The first 100 of them
Leading(series) == SubSeq(Present(series), 1, Min(100, Len(Present(series))))

Textual(series) == series.dtype = "object"

LowerCased(series) == {lower(str(c)) : c \in SeqToSet(Present(series))}

DistinctCount(series) == Cardinality(SeqToSet(Present(series)))

\* The precedence list: the type of the first rule whose condition holds
DecisionList(series) ==
    << [when |-> Len(Present(series)) = 0, type |-> "unknown"],
       [when |-> series.dtype = "datetime64[ns]", type |-> "datetime"],
       [when |-> Textual(series) /\ \A i \in 1 .. Len(Leading(series)) : parses_as_date(Leading(series)[i]),
        type |-> "datetime"],
       [when |-> series.dtype \in {"int64", "float64", "bool"}, type |-> "numeric"],
       [when |-> Textual(series) /\ \A i \in 1 .. Len(Leading(series)) : parses_as_number(Leading(series)[i]),
        type |-> "numeric"],
       [when |-> LowerCased(series) \subseteq {"true", "false", "yes", "no", "y", "n", "1", "0", "t", "f"}
                 /\ Cardinality(LowerCased(series)) <= 2,
        type |-> "boolean"],
       [when |-> 100 * DistinctCount(series) > 95 * Len(series.values), type |-> "id"],
       [when |-> DistinctCount(series) < 50, type |-> "categorical"],
       [when |-> TRUE, type |-> "text"] >>

ReferenceType(series) ==
    LET rules == DecisionList(series)
        first == CHOOSE k \in 1 .. Len(rules) : rules[k].when /\ \A j \in 1 .. (k - 1) : ~rules[j].when
    IN  rules[first].type

C11_FourWordsBoolean ==
    (/\ unit.fn = "_infer_column_type" /\ unit.done
     /\ unit.arg.values = <<Str("true"), Str("false"), Str("yes"), Str("no")>>)
    => unit.ret = "boolean"

\* C11: a column of the strings "true", "false", "yes", "no" is inferred
\* boolean exactly when it holds at most two distinct ones of them; the
\* column of all four is inferred id.
C11_TwoWordsBoolean ==
    (/\ unit.fn = "_infer_column_type" /\ unit.done
     /\ unit.arg.dtype = "object"
     /\ unit.arg.values /= <<>>
     /\ \A i \in 1 .. Len(unit.arg.values) : unit.arg.values[i] \in BooleanWords)
    => /\ unit.ret = "boolean" <=> Cardinality(SeqToSet(unit.arg.values)) <= 2
       /\ unit.arg.values = <<Str("true"), Str("false"), Str("yes"), Str("no")>> => unit.ret = "id"

C11_Witness ==
    /\ unit.fn = "_infer_column_type" /\ unit.done
    /\ unit.arg.values = <<Str("true"), Str("false"), Str("yes"), Str("no")>>
    /\ unit.ret = "id"

\* The columns of df with a missing value whose inferred type is one of types
MissingOfType(df, types) ==
    {j \in ColIdx(df) : /\ \E i \in RowIdx(df) : isnull(df.rows[i][j])
                        /\ InferredType(schema, df.columns[j]) \in types}

\* The missing cells of df in the columns js
MissingIn(df, js) == Cardinality({<<i, j>> \in RowIdx(df) \X js : isnull(df.rows[i][j])})

\* The entries a numeric imputation of k columns and v values can log
NumericEntries(k, v) ==
    {"KNN imputation applied: " \o ToString(k) \o " numeric columns, " \o ToString(v)
        \o " values filled [Confidence: medium]",
     "Mean imputation applied: " \o ToString(k) \o " numeric columns (KNN failed) [Confidence: low]"}

\* The entry the mode imputation of k columns logs
ModeEntry(k) == "Mode imputation applied: " \o ToString(k) \o " categorical columns [Confidence: high]"

\* The summary entry for f values filled in k columns
SummaryEntry(f, k) ==
    "Missing values handled: " \o ToString(f) \o " values imputed across " \o ToString(k) \o " columns"

\* _handle_missing_values was called on a frame with a missing cell
Imputed == unit.fn = "_handle_missing_values" /\ unit.done /\ MissingCount(unit.arg) > 0

\* C12 as stated: for the column A with one of its five values missing, the
\* imputing leaves a number in the cell, keeps the five rows and appends
\* exactly one log entry.
C12_OneImputationEntry ==
    (Imputed /\ unit.arg = MissingValueFrame)
        => /\ ~isnull(unit.ret.rows[3][1])
           /\ len(unit.ret) = 5
           /\ Len(cleaning_log) = 1

\* C12: each imputation method that runs appends exactly one entry, naming
\* the method and the number of columns (the KNN entry also the number of
\* values filled), and one summary entry with the number of values and of
\* columns follows when a value was filled; for the column A with one of its
\* five values missing the cell then holds a number, the five rows are kept
\* and the log holds a numeric imputation entry and the summary entry.
C12_OneEntryPerMethod ==
    Imputed =>
        LET numeric == MissingOfType(unit.arg, {"numeric"})
            categorical == MissingOfType(unit.arg, {"categorical", "text", "boolean"})
            filled == MissingCount(unit.arg) - MissingCount(unit.ret)
            n == IF numeric = {} THEN 0 ELSE 1
            m == IF categorical = {} THEN 0 ELSE 1
            f == IF filled > 0 THEN 1 ELSE 0
        IN  /\ Len(cleaning_log) = n + m + f
            /\ n = 1 => cleaning_log[1] \in NumericEntries(Cardinality(numeric),
                                                          MissingIn(unit.arg, numeric))
            /\ m = 1 => cleaning_log[n + 1] = ModeEntry(Cardinality(categorical))
            /\ f = 1 => \E k \in 0 .. Len(unit.arg.columns) :
                            cleaning_log[n + m + 1] = SummaryEntry(filled, k)
            /\ len(unit.ret) = len(unit.arg)
            /\ unit.arg = MissingValueFrame
                  => /\ unit.ret.rows[3][1].k = "num"
                     /\ cleaning_log[1] \in NumericEntries(1, 1)
                     /\ cleaning_log[2] = SummaryEntry(1, 1)
                     /\ Len(cleaning_log) = 2

C12_Witness ==
    /\ Imputed /\ unit.arg = MissingValueFrame
    /\ unit.ret.rows[3][1] = Num(3)
    /\ cleaning_log = <<"KNN imputation applied: 1 numeric columns, 1 values filled [Confidence: medium]",
                        "Missing values handled: 1 values imputed across 1 columns">>

\* _apply_business_rules was called
RulesApplied == unit.fn = "_apply_business_rules" /\ unit.done

\* The negative values of column j of df
Negatives(df, j) == {i \in RowIdx(df) : df.rows[i][j].k = "num" /\ df.rows[i][j].n < 0}

\* The entries that report corrected negatives in column col of a frame of n rows
NegativeEntries(col, n) ==
    {"Business rule applied to " \o col \o ": " \o ToString(k)
        \o " negative values set to 0 [Confidence: high]" : k \in 1 .. n}

\* The positions of the log that hold one of entries
Occurrences(entries) == {i \in 1 .. Len(cleaning_log) : cleaning_log[i] \in entries}

SentinelRows(df, j) == {i \in RowIdx(df) : df.rows[i][j] \in Sentinels}

\* The entries that report replaced error codes in column col of a frame of n rows
SuspiciousEntries(col, n) ==
    {"Suspicious values in " \o col \o ": " \o ToString(k)
        \o " values (999/9999) replaced with median [Confidence: medium]" : k \in 1 .. n}

\* C14: after the business-rule pass no cell of a numeric quantity-like
\* column holds 999, 9999 or 99999; each cell that held one holds the median
\* of the other values of the column, every other cell is unchanged, and the
\* log holds one entry, with the count, for each corrected column.
C14_NoSentinelRemains ==
    RulesApplied =>
        \A j \in ColIdx(unit.arg) :
            (quantity_like(unit.arg.columns[j]) /\ is_numeric_dtype(unit.arg.dtypes[j]))
                => LET col == unit.arg.columns[j]
                       held == SentinelRows(unit.arg, j)
                       others == [i \in 1 .. len(unit.arg) - Cardinality(held) |->
                                    unit.arg.rows[Nth(RowIdx(unit.arg) \ held, i)][j]]
                   IN  /\ SentinelRows(unit.ret.df, j) = {}
                       /\ \A i \in held : unit.ret.df.rows[i][j] = median(others)
                       /\ \A i \in RowIdx(unit.arg) \ held : unit.ret.df.rows[i][j] = unit.arg.rows[i][j]
                       /\ Cardinality(Occurrences(SuspiciousEntries(col, len(unit.arg))))
                             = (IF held /= {} THEN 1 ELSE 0)
                       /\ held /= {} => \E i \in 1 .. Len(cleaning_log) :
                              cleaning_log[i] = "Suspicious values in " \o col \o ": "
                                  \o ToString(Cardinality(held))
                                  \o " values (999/9999) replaced with median [Confidence: medium]"

\* The files the task writes
Outputs == {"cleaned_data.csv", "cleaning_log.txt"}

\* C15: once clean has raised inside process_job_background the row of the
\* job, as long as it is there, is never complete; when the task has ended
\* the row is failed and its error_message is the text of the error; and the
\* job directory holds neither the cleaned data nor the log.
C15_RaiseFailsJob ==
    job.raised =>
        /\ job.record.exists => job.record.status /= "complete"
        /\ (job.task = "ended" /\ job.record.exists)
              => job.record.status = "failed" /\ job.record.error_message = error
        /\ job.dir.files \cap Outputs = {}

C15_Witness ==
    /\ job.raised /\ job.task = "ended" /\ pc = "failed"
    /\ job.record.exists /\ job.record.status = "failed"
    /\ job.record.error_message = "File is empty"
    /\ job.dir.files = {"upload"}

\* C16 as stated: the response of a successful upload reports the status
\* queued, and so does the first status query after it.
C16_UploadReportsQueued ==
    job.response.code = 200
        => /\ job.response.status = "queued"
           /\ (Len(job.queries) > 0 /\ job.queries[1].code = 200) => job.queries[1].status = "queued"

\* C17 as stated: once delete_job has returned the task takes no further
\* stage of the pipeline and writes no file, neither the row nor a file of
\* the job exists, and a status query is answered not-found.
C17_DeleteCancels ==
    [][/\ job.deleting = "returned"
          => /\ pc' \in {pc, "failed"}
             /\ job'.dir = job.dir
       /\ job'.deleting = "returned"
          => /\ ~job'.record.exists
             /\ ~job'.dir.exists /\ job'.dir.files = {}
             /\ Len(job'.queries) > Len(job.queries) => Last(job'.queries).code = 404]_vars

\* The stages entered so far
EnteredStages == {history[i] : i \in 1 .. Len(history)}

\* The stages that appended to the log
LoggingStages == {log_stage[i] : i \in 1 .. Len(log_stage)}

\* C18: the imputing stage is entered exactly when the original dataset, as
\* profiling_before reports it, has a missing cell; when it is skipped no
\* entry of the log comes from it, and the working copy that enters outlier
\* handling equals the original dataset, the log holding the three entries of
\* the stages before.
C18_ImputingIffMissing ==
    (EnteredStages \cap {"imputing", "outlier_handling"} /= {})
        => /\ stats_before.missing_cells = MissingCount(df_original)
           /\ "imputing" \in EnteredStages <=> MissingCount(df_original) > 0
           /\ "imputing" \notin EnteredStages
                 => /\ "imputing" \notin LoggingStages
                    /\ pc = "outlier_handling"
                          => /\ df_cleaned = df_original
                             /\ Len(cleaning_log) = 3

C18_Witness ==
    /\ pc = "outlier_handling" /\ "imputing" \notin EnteredStages
    /\ len(df_original) = MaxRows
    /\ df_cleaned = df_original
    /\ stats_before.missing_cells = 0

\* The exact duplicate rows of df
DuplicateCount(df) == len(df) - Cardinality(FirstOccurrences(df))

\* C19: clean enters deduplicating exactly when the working dataset has a
\* duplicate row after outlier handling; with no duplicate the stage is
\* skipped, the dataset reaches profiling_after as outlier handling left it,
\* no entry of the log comes from deduplicating, and _remove_duplicates on
\* that dataset returns it unchanged and logs nothing.
C19_DedupIffDuplicates ==
    /\ pc = "deduplicating" => DuplicateCount(df_cleaned) > 0
    /\ "deduplicating" \notin EnteredStages => "deduplicating" \notin LoggingStages
    /\ (pc = "profiling_after" /\ "deduplicating" \notin EnteredStages)
          => /\ DuplicateCount(df_cleaned) = 0
             /\ _remove_duplicates(df_cleaned) = [df |-> df_cleaned, entries |-> <<>>]
    /\ (pc = "profiling_after" /\ "deduplicating" \in EnteredStages)
          => "deduplicating" \in LoggingStages

C19_Witness ==
    /\ pc = "profiling_after" /\ "deduplicating" \notin EnteredStages
    /\ len(df_cleaned) >= 2
    /\ DuplicateCount(df_cleaned) = 0
    /\ df_cleaned /= df_original

\* C20: once loaded the original dataset is not modified, and once inferred
\* the schema is not modified: no stage from profiling_before on changes
\* df_original or schema.
C20_OriginalAndSchemaKept ==
    [][/\ pc /= "loading" => df_original' = df_original
       /\ pc \notin {"loading", "schema_inference"} => schema' = schema]_vars

C20_Witness ==
    /\ pc = "done"
    /\ df_original = ParseTable(file)
    /\ schema = _infer_schema(df_original)
    /\ df_cleaned /= df_original
    /\ \E i \in 1 .. Len(cleaning_log) :
          cleaning_log[i] = "Business rule applied to Revenue: 1 negative values set to 0 [Confidence: high]"

\* _handle_missing_values was called
ImputeCalled == unit.fn = "_handle_missing_values" /\ unit.done

\* The inferred types the imputing stage fills
FilledTypes == {"numeric", "categorical", "text", "boolean"}

\* C21: the imputing stage keeps the rows, their order and the columns; a
\* column inferred datetime, id or unknown, and a column without a missing
\* value, is cell for cell unchanged; a cell that changes was missing and is
\* in a numeric, categorical, text or boolean column.
C21_ImputingFrame ==
    ImputeCalled =>
        /\ unit.ret.columns = unit.arg.columns
        /\ unit.ret.index = unit.arg.index
        /\ len(unit.ret) = len(unit.arg)
        /\ \A j \in ColIdx(unit.arg) :
              LET type == InferredType(schema, unit.arg.columns[j])
                  complete == \A i \in RowIdx(unit.arg) : ~isnull(unit.arg.rows[i][j])
              IN  /\ (type \in {"datetime", "id", "unknown"} \/ complete)
                        => \A i \in RowIdx(unit.arg) : unit.ret.rows[i][j] = unit.arg.rows[i][j]
                  /\ \A i \in RowIdx(unit.arg) :
                        unit.ret.rows[i][j] /= unit.arg.rows[i][j]
                            => isnull(unit.arg.rows[i][j]) /\ type \in FilledTypes

C21_Witness ==
    /\ ImputeCalled
    /\ unit.arg = DatedFrame
    /\ InferredType(schema, "When") = "datetime"
    /\ isnull(unit.ret.rows[2][1])
    /\ ~isnull(unit.ret.rows[2][2])

\* The log entries the stage appended, in order
StageEntries(stage) ==
    LET at == {i \in 1 .. Len(cleaning_log) : log_stage[i] = stage}
    IN  [k \in 1 .. Cardinality(at) |-> cleaning_log[Nth(at, k)]]

\* The entries of a mean imputation
MeanEntries(df) ==
    {"Mean imputation applied: " \o ToString(k) \o " numeric columns (KNN failed) [Confidence: low]" :
        k \in 1 .. Len(df.columns)}

\* The entries of a KNN imputation, of confidence medium
KNNEntries(df) ==
    {"KNN imputation applied: " \o ToString(k) \o " numeric columns, " \o ToString(v)
        \o " values filled [Confidence: medium]" :
        k \in 1 .. Len(df.columns), v \in 0 .. len(df) * Len(df.columns)}

\* C22: when the KNN imputation of the numeric columns fails the run goes on:
\* the imputing stage logs exactly one "Mean imputation" entry, of confidence
\* low, and no KNN entry of confidence medium; the missing cells of each
\* numeric column hold the mean of the column, the mode imputation of the
\* categorical, text and boolean columns is done and logged, and the stage
\* after imputing is entered.
C22_MeanFallback ==
    knn = "failed" =>
        LET numeric == MissingOfType(df_original, {"numeric"})
            categorical == MissingOfType(df_original, {"categorical", "text", "boolean"})
            entries == StageEntries("imputing")
        IN  /\ "outlier_handling" \in EnteredStages
            /\ numeric /= {}
            /\ Cardinality({i \in 1 .. Len(entries) : entries[i] \in MeanEntries(df_original)}) = 1
            /\ entries[1] = "Mean imputation applied: " \o ToString(Cardinality(numeric))
                                \o " numeric columns (KNN failed) [Confidence: low]"
            /\ \A i \in 1 .. Len(entries) : entries[i] \notin KNNEntries(df_original)
            /\ categorical /= {} => entries[2] = ModeEntry(Cardinality(categorical))
            /\ pc = "outlier_handling"
                  => /\ \A j \in numeric : \A i \in RowIdx(df_original) :
                           df_cleaned.rows[i][j] =
                               IF isnull(df_original.rows[i][j])
                               THEN NumS(mean(Column(df_original, j).values))
                               ELSE df_original.rows[i][j]
                     /\ \A j \in categorical : \A i \in RowIdx(df_original) :
                           df_cleaned.rows[i][j] =
                               IF isnull(df_original.rows[i][j])
                               THEN mode0(Column(df_original, j).values)
                               ELSE df_original.rows[i][j]

C22_Witness ==
    /\ knn = "failed" /\ pc = "done"
    /\ StageEntries("imputing") =
         <<"Mean imputation applied: 1 numeric columns (KNN failed) [Confidence: low]",
           "Mode imputation applied: 1 categorical columns [Confidence: high]",
           "Missing values handled: 2 values imputed across 2 columns">>

OutliersCalled == unit.fn = "_handle_outliers" /\ unit.done

\* The columns the schema holds as numeric
NumericCols(df) == {j \in ColIdx(df) : InferredType(schema, df.columns[j]) = "numeric"}

\* The IQR bounds of column j of df
IQRBounds(df, j) ==
    LET q == Quartiles(Column(df, j).values)
    IN  [lower |-> LowerBound(q.Q1, q.Q3), upper |-> UpperBound(q.Q1, q.Q3)]

\* The rows of column j that hold a value outside the IQR bounds of the column
Outside(df, j) ==
    IF j \in NumericCols(df) /\ is_numeric_dtype(df.dtypes[j])
    THEN LET b == IQRBounds(df, j)
         IN  {i \in RowIdx(df) : /\ df.rows[i][j].k = "num"
                                 /\ df.rows[i][j].n < b.lower \/ df.rows[i][j].n > b.upper}
    ELSE {}

\* Column j as the IQR pass leaves it
LeftByIQR(df, j) ==
    IF j \in NumericCols(df) /\ is_numeric_dtype(df.dtypes[j])
    THEN LET b == IQRBounds(df, j)
         IN  [i \in RowIdx(df) |->
                IF df.rows[i][j].k /= "num" THEN df.rows[i][j]
                ELSE IF df.rows[i][j].n < b.lower THEN NumS(b.lower)
                ELSE IF df.rows[i][j].n > b.upper THEN NumS(b.upper)
                ELSE df.rows[i][j]]
    ELSE [i \in RowIdx(df) |-> df.rows[i][j]]

\* The entry of the IQR pass for column j with k values capped
IQREntry(df, j, k) ==
    LET b == IQRBounds(df, j)
    IN  "IQR outliers capped in " \o df.columns[j] \o ": " \o ToString(k) \o " values capped to ["
            \o FormatFixed(b.lower, Scale, 2) \o ", " \o FormatFixed(b.upper, Scale, 2)
            \o "] [Confidence: high]"

HandledEntries(df) ==
    {"Outliers handled: " \o ToString(k) \o " outliers detected and capped/corrected" :
        k \in 1 .. 3 * len(df) * Len(df.columns)}

\* The entries of the IQR pass for the columns of df
IQREntries(df) ==
    {IQREntry(df, j, Cardinality(Outside(df, j))) : j \in {c \in ColIdx(df) : Outside(df, c) /= {}}}

\* The entries of the business rules for the columns of df
RuleEntries(df) ==
    UNION {NegativeEntries(df.columns[j], len(df)) \cup SuspiciousEntries(df.columns[j], len(df)) :
              j \in ColIdx(df)}

\* The pass an entry of _handle_outliers belongs to: 1 the anomaly detection,
\* 2 the IQR capping, 3 the business rules, 4 the total; 0 for any other entry
PassOf(e, df) ==
    IF e \in {DetectionLine(k) : k \in 1 .. len(df)} THEN 1
    ELSE IF e \in IQREntries(df) THEN 2
    ELSE IF e \in RuleEntries(df) THEN 3
    ELSE IF e \in HandledEntries(df) THEN 4
    ELSE 0

\* The rows of a column the rules correct, judged on the values the IQR pass left
NegativeLeft(col, left) ==
    IF revenue_like(col) THEN {i \in DOMAIN left : left[i].k = "num" /\ left[i].n < 0} ELSE {}

AfterRule1(col, left) ==
    LET negative == NegativeLeft(col, left)
    IN  [i \in DOMAIN left |-> IF i \in negative THEN Num(0) ELSE left[i]]

SentinelLeft(col, after1) ==
    IF quantity_like(col) THEN {i \in DOMAIN after1 : after1[i] \in Sentinels} ELSE {}

\* C23: _handle_outliers logs the anomaly detection first, then the IQR
\* capping, then the business rules, then the total; the rules judge the
\* values the IQR pass left, so that a negative value or an error code the
\* IQR pass has capped counts by its capped value; and a column that is
\* revenue-like and quantity-like has both rules applied, each with its entry:
\* the negative values left become 0, then the error codes left become the
\* median of the other values.
C23_PassesInOrder ==
    (OutliersCalled /\ NumericCols(unit.arg) /= {}) =>
        LET df == unit.arg
            pass == [i \in 1 .. Len(cleaning_log) |-> PassOf(cleaning_log[i], df)]
        IN  /\ \A i \in 1 .. Len(cleaning_log) : pass[i] \in 1 .. 4
            /\ \A i, k \in 1 .. Len(cleaning_log) : i < k => pass[i] <= pass[k]
            /\ \A j \in ColIdx(df) :
                  df.dtypes[j] \in {"int64", "float64"} =>
                      LET col == df.columns[j]
                          left == LeftByIQR(df, j)
                          negative == NegativeLeft(col, left)
                          after1 == AfterRule1(col, left)
                          sentinel == SentinelLeft(col, after1)
                          others == [k \in 1 .. len(df) - Cardinality(sentinel) |->
                                       after1[Nth(RowIdx(df) \ sentinel, k)]]
                      IN  /\ \A k \in 1 .. len(df) :
                                /\ Occurrences({"Business rule applied to " \o col \o ": " \o ToString(k)
                                                  \o " negative values set to 0 [Confidence: high]"}) /= {}
                                      <=> k = Cardinality(negative)
                                /\ Occurrences({"Suspicious values in " \o col \o ": " \o ToString(k)
                                                  \o " values (999/9999) replaced with median [Confidence: medium]"}) /= {}
                                      <=> k = Cardinality(sentinel)
                          /\ \A i \in negative \ sentinel : unit.ret.rows[i][j] = Num(0)
                          /\ \A i \in RowIdx(df) \ (negative \cup sentinel) : unit.ret.rows[i][j] = left[i]
                          /\ \A i \in sentinel : unit.ret.rows[i][j] = median(others)

C23_Witness ==
    /\ OutliersCalled /\ unit.arg = ThreePassFrame
    /\ \E k \in 1 .. 2 :
          cleaning_log = <<DetectionLine(k),
                           "IQR outliers capped in Sales_Count: 1 values capped to [-25.00, 1775.00] [Confidence: high]",
                           "Business rule applied to Sales_Count: 1 negative values set to 0 [Confidence: high]",
                           "Suspicious values in Sales_Count: 2 values (999/9999) replaced with median [Confidence: medium]",
                           "Outliers handled: 4 outliers detected and capped/corrected">>
    /\ unit.ret.rows[1][1] = Num(0) /\ unit.ret.rows[11][1] = Num(1775)
    /\ unit.ret.rows[3][1] = Num(800)

\* The rows of df without a missing value in a numeric column
CompleteRows(df) == {i \in RowIdx(df) : \A j \in NumericCols(df) : ~isnull(df.rows[i][j])}

\* The values of column j that the IQR pass and the rules correct
Corrections(df, j) ==
    LET left == LeftByIQR(df, j)
        after1 == AfterRule1(df.columns[j], left)
    IN  Cardinality(Outside(df, j))
        + (IF df.dtypes[j] \in {"int64", "float64"}
           THEN Cardinality(NegativeLeft(df.columns[j], left))
                + Cardinality(SentinelLeft(df.columns[j], after1))
           ELSE 0)

\* C24: the anomaly detection of _handle_outliers changes nothing: the frame
\* returned and the entries after the detection line are those of a call in
\* which no row is flagged, the rows and columns are those of the argument,
\* and the "Outliers handled" total is the number of values the IQR pass and
\* the rules corrected; the detection line is logged at most once, first, and
\* only with at least 11 rows complete in the numeric columns.
C24_DetectionOnly ==
    (OutliersCalled /\ NumericCols(unit.arg) /= {}) =>
        LET df == unit.arg
            detected == Occurrences({DetectionLine(k) : k \in 1 .. len(df)})
            quiet == _handle_outliers(df, schema, 0)
            total == SumSeq([j \in ColIdx(df) |-> Corrections(df, j)])
        IN  /\ detected \subseteq {1}
            /\ detected /= {} => Cardinality(CompleteRows(df)) >= 11
            /\ Cardinality(CompleteRows(df)) <= 10 => detected = {}
            /\ unit.ret = quiet.df
            /\ SubSeq(cleaning_log, Cardinality(detected) + 1, Len(cleaning_log)) = quiet.entries
            /\ unit.ret.columns = df.columns /\ unit.ret.index = df.index /\ len(unit.ret) = len(df)
            /\ \A k \in 1 .. 3 * len(df) * Len(df.columns) :
                  Occurrences({"Outliers handled: " \o ToString(k) \o " outliers detected and capped/corrected"}) /= {}
                      <=> k = total

C24_Witness ==
    /\ OutliersCalled /\ unit.arg = ThreePassFrame
    /\ cleaning_log[1] = DetectionLine(1)
    /\ cleaning_log[5] = "Outliers handled: 4 outliers detected and capped/corrected"
    /\ len(unit.ret) = 11

\* Ten complete rows: the detection is skipped
C24_SkippedWitness ==
    /\ OutliersCalled /\ Cardinality(CompleteRows(unit.arg)) = 10 /\ NumericCols(unit.arg) /= {}
    /\ Occurrences({DetectionLine(k) : k \in 1 .. 10}) = {}

\* The columns the IQR pass computes bounds for
IQRColumns(df) ==
    {j \in NumericCols(df) : is_numeric_dtype(df.dtypes[j]) /\ Len(dropna(Column(df, j).values)) > 0}

\* C25: for every numeric column, with the bounds Q1 - 1.5*IQR and
\* Q3 + 1.5*IQR of the column as it is passed in, the IQR pass turns each
\* value below the lower bound into the lower bound and each value above the
\* upper bound into the upper bound and keeps the other cells, so that every
\* value it leaves is within the bounds; the log holds exactly one IQR entry
\* for a column with a capped value, stating how many were capped, and none
\* for the other columns.  (The cells the business rules correct afterwards
\* are the subject of C23.)
C25_IQRClamping ==
    OutliersCalled =>
        \A j \in IQRColumns(unit.arg) :
            LET df == unit.arg
                b == IQRBounds(df, j)
                left == LeftByIQR(df, j)
                after1 == AfterRule1(df.columns[j], left)
                ruled == IF df.dtypes[j] \in {"int64", "float64"}
                         THEN NegativeLeft(df.columns[j], left) \cup SentinelLeft(df.columns[j], after1)
                         ELSE {}
                capped == {i \in RowIdx(df) : /\ df.rows[i][j].k = "num"
                                              /\ df.rows[i][j].n < b.lower \/ df.rows[i][j].n > b.upper}
            IN  /\ b.lower <= b.upper
                /\ \A i \in RowIdx(df) \ ruled :
                      LET was == df.rows[i][j]
                          is == unit.ret.rows[i][j]
                      IN  /\ isnull(was) => isnull(is)
                          /\ (was.k = "num" /\ was.n < b.lower) => is = NumS(b.lower)
                          /\ (was.k = "num" /\ was.n > b.upper) => is = NumS(b.upper)
                          /\ (was.k = "num" /\ was.n >= b.lower /\ was.n <= b.upper) => is = was
                          /\ ~isnull(was) => is.k = "num" /\ is.n >= b.lower /\ is.n <= b.upper
                /\ \A k \in 0 .. len(df) :
                      Cardinality(Occurrences({IQREntry(df, j, k)}))
                          = (IF k = Cardinality(capped) /\ k > 0 THEN 1 ELSE 0)

\* test_outlier_detection: the 9999 of Sales is capped
C25_Witness ==
    /\ OutliersCalled /\ unit.arg = OutlierFrame
    /\ unit.arg.rows[5][1] = Num(9999) /\ unit.ret.rows[5][1] = NumS((219 * Scale) \div 2)
    /\ unit.ret.rows[4][2] = NumS((29 * Scale) \div 2)
    /\ cleaning_log[1] = "IQR outliers capped in Sales: 1 values capped to [95.50, 109.50] [Confidence: high]"
    /\ cleaning_log[2] = "IQR outliers capped in Quantity: 1 values capped to [8.50, 14.50] [Confidence: high]"
    /\ Len(cleaning_log) = 3

\* The entries that report an improvement of the quality score
ImprovementEntries ==
    {"Quality improvement: +" \o ToString(a) \o "." \o ToString(b) \o " points" : a \in 0 .. 100, b \in 0 .. 9}

\* C26: a run logs a "Quality improvement" entry exactly when it reaches done
\* with quality_score_after greater than quality_score_before; the entry is
\* then the last of the log, right after the "Final data quality" entry, and
\* without it "Final data quality" is the last entry; the quality_score
\* returned is quality_score_after.
C26_ImprovementLine ==
    LET n == Len(cleaning_log)
        improved == RatLT(quality_score_before, quality_score_after)
        difference == RatSub(quality_score_after, quality_score_before)
        final == "Final data quality: " \o FormatScore(quality_score_after) \o "/100"
    IN  /\ pc /= "done" => Occurrences(ImprovementEntries) = {}
        /\ pc = "done" =>
              /\ Occurrences(ImprovementEntries) /= {} <=> improved
              /\ improved => /\ Occurrences(ImprovementEntries) = {n}
                             /\ cleaning_log[n] = "Quality improvement: +"
                                    \o FormatFixed(difference.num, difference.den, 1) \o " points"
                             /\ cleaning_log[n - 1] = final
              /\ ~improved => cleaning_log[n] = final
              /\ result.returned
              /\ result.quality_score = quality_score_after
              /\ result.quality_score_after = quality_score_after
              /\ quality_score = quality_score_after

C26_Witness ==
    /\ pc = "done"
    /\ RatLT(quality_score_before, quality_score_after)
    /\ cleaning_log[Len(cleaning_log)] \in ImprovementEntries
    /\ result.quality_score = quality_score_after

\* A run that ends at done without an improvement
C26_NoImprovementWitness ==
    /\ pc = "done"
    /\ quality_score_before = quality_score_after
    /\ Occurrences(ImprovementEntries) = {}

\* The changes of the stored status of a job
StatusChanges ==
    {<<"queued", "processing">>, <<"processing", "complete">>,
     <<"processing", "failed">>, <<"failed", "processing">>}

\* C27: the stored status of a job changes only from queued to processing,
\* from processing to complete or to failed, and from failed to processing;
\* the status of a complete job never changes, however the task of the
\* upload, the start_processing requests and their tasks interleave.
C27_StatusChanges ==
    [][proc'.status /= proc.status => <<proc.status, proc'.status>> \in StatusChanges]_vars

\* C28: the upload_count of a user never exceeds upload_limit, and every
\* upload accepted has added exactly one to it, also when upload requests of
\* the user are handled concurrently.
C28_UploadLimit ==
    /\ uploads.upload_count <= uploads.upload_limit
    /\ uploads.upload_count = uploads.before + uploads.jobs

\* The missing cells of df
MissingCells(df) == {<<i, j>> \in RowIdx(df) \X ColIdx(df) : isnull(df.rows[i][j])}

\* C29: _handle_outliers never turns a value into a missing cell: every cell
\* that is missing when it returns was missing in its argument, so the number
\* of missing cells does not grow, also for a quantity-like column that
\* holds error codes only.
C29_NoNewMissing ==
    OutliersCalled =>
        /\ MissingCells(unit.ret) \subseteq MissingCells(unit.arg)
        /\ Cardinality(MissingCells(unit.ret)) <= Cardinality(MissingCells(unit.arg))

\* The position of the index label in df
PositionOf(df, label) == CHOOSE i \in RowIdx(df) : df.index[i] = label

\* The cleaned dataset has the columns of the original, in their order, and
\* its rows are rows of the original, in their order
CleanedShape ==
    df_cleaned /= NoneDF =>
        /\ df_cleaned.columns = df_original.columns
        /\ \A i \in RowIdx(df_cleaned) : \E k \in RowIdx(df_original) : df_cleaned.index[i] = df_original.index[k]
        /\ \A i, k \in RowIdx(df_cleaned) :
              i < k => PositionOf(df_original, df_cleaned.index[i]) < PositionOf(df_original, df_cleaned.index[k])
        /\ "deduplicating" \notin EnteredStages \/ pc = "deduplicating"
              => df_cleaned.index = df_original.index /\ len(df_cleaned) = len(df_original)
        /\ len(df_cleaned) <= len(df_original)

\* C30: clean keeps the columns of the original dataset and their order, and
\* the rows of the cleaned dataset are rows of the original in their order;
\* only the deduplicating stage removes rows, each row it keeps is as outlier
\* handling left it, and it leaves the original row count minus the number
\* of duplicate rows the dataset has after outlier handling; a run without
\* that stage keeps every row.
C30_ColumnsAndRowsKept ==
    [][/\ CleanedShape'
       /\ (df_cleaned /= NoneDF /\ len(df_cleaned') /= len(df_cleaned)) => pc = "deduplicating"
       /\ (pc = "deduplicating" /\ pc' = "profiling_after")
             => /\ len(df_cleaned') = len(df_original) - DuplicateCount(df_cleaned)
                /\ \A i \in RowIdx(df_cleaned') :
                      df_cleaned'.rows[i] = df_cleaned.rows[PositionOf(df_cleaned, df_cleaned'.index[i])]
       /\ pc' = "done" => len(result'.cleaned_df) = len(df_cleaned') /\ result'.cleaned_df = df_cleaned'
      ]_vars

C30_Witness ==
    /\ pc = "done" /\ "deduplicating" \in EnteredStages
    /\ len(df_original) = 4 /\ len(df_cleaned) = 2
    /\ df_cleaned.index = <<0, 2>>
    /\ df_cleaned.columns = df_original.columns

====
